---- MODULE Spec2Model ----
(***************************************************************************)
(* Sharded counter (get-convex/sharded-counter).                           *)
(*                                                                         *)
(* The component keeps one table, `counters`, of documents                 *)
(* {_id, name, shard, value}.  Its functions (src/component/public.ts) are *)
(* the mutations add, rebalance, reset and the queries count and           *)
(* estimateCount.  Every handler is written here as an operator over a     *)
(* database snapshot that yields the writes it issues and the value it     *)
(* returns; the actions run the handlers either one after another (Spec)   *)
(* or as concurrent optimistic transactions (SpecTxn).  Further            *)
(* specifications run a count query next to concurrent adds (SpecRead), the *)
(* estimator, the rebalance and single mutations on tables filled by adds  *)
(* (SpecEstimate, SpecRebalance, SpecStep), shuffle on arrays (SpecShuffle), *)
(* failing mutations (SpecFail), calls with any `shards` the validators    *)
(* admit (SpecAnyShards), and the client class ShardedCounter (SpecClient). *)
(* SpecLoop steps through the loop that spreads the remainder of the older *)
(* rebalance.  The example application is modelled with its own tables:    *)
(* writes counted by a trigger (SpecTrigger), the checkbox example         *)
(* (SpecToggle), the backfill protocol (SpecBackfill) and the nested       *)
(* counter, whose names are tuples (SpecNested).                           *)
(*                                                                         *)
(* Numbers are the doubles of JavaScript: every sum, product and quotient   *)
(* of a handler is rounded as IEEE 754 rounds it.                          *)
(***************************************************************************)
EXTENDS Integers, Sequences, FiniteSets, TLC

VARIABLES
  store,    \* the `counters` table: a set of documents [id, name, shard, value]
  nextId,   \* the next fresh document _id
  last,     \* the function call that completed last, with its arguments and result
  prev,     \* the `counters` table as it was before that call
  added,    \* history: per name, the sum of the deltas of all committed adds,
            \* as a number of mathematics (not rounded)
  touched,  \* history: per name, the kinds of mutation committed on it, and
            \* "rounded" once an add has rounded the sum it stored
  nops,     \* number of mutations issued so far
  txn,      \* per client, the mutation it has in flight (SpecTxn)
  reader,   \* the count query in flight, with what committed next to it (SpecRead)
  client,   \* the ShardedCounter instance of the caller (SpecClient)
  app       \* the tables and counter instance of the application (example/convex)

vars == <<store, nextId, last, prev, added, touched, nops, txn, reader, client, app>>

---------------------------------------------------------------------------
\* Bounds of the model.

\* Mutations per run of the sequential specification.
MaxOps == 2
\* Mutations the clients of the application call per run of its specifications.
MaxWrites == 3
\* Documents in `users` when the backfill starts.
MaxUsers == 4
\* Largest explicit `shards` argument.
MaxShards == 2
\* Math.random() returns u / RandDen for u in 0 .. RandDen-1.
RandDen == 2
\* Mutations begun per run of the concurrent specification.
MaxTxns == 3
\* Concurrent clients.
NumProcs == 2

\* public.ts: export const DEFAULT_SHARD_COUNT = 16
DEFAULT_SHARD_COUNT == 16

---------------------------------------------------------------------------
\* Numbers.  A `number` of the source is an IEEE 754 double.  A finite number
\* is written s * m * 2^e: s its sign (-1, 0, 1), m an odd natural number (0
\* for zero) and e an integer.  m is held as a sequence of limbs, least
\* significant first, each below Base, the last one not 0.  The same form,
\* with m of any length, holds the exact sums the properties compare with.
\* -0 and 0 are one number (they are === in JavaScript).

Base == 2 ^ 15
\* The bits of the significand of a double, and the exponents of its least
\* subnormal and of its largest binade.
Precision == 52 + 1
MinExponent == -(1022 + 52)
MaxExponent == 2 ^ 10 - 1

Abs(x) == IF x < 0 THEN -x ELSE x

RECURSIVE NFromInt(_)
NFromInt(n) == IF n = 0 THEN <<>> ELSE <<n % Base>> \o NFromInt(n \div Base)

RECURSIVE NTrim(_)
NTrim(a) ==
  IF a = <<>> THEN a
  ELSE IF a[Len(a)] = 0 THEN NTrim(SubSeq(a, 1, Len(a) - 1)) ELSE a

\* The limb i of a, 0 beyond its length.
NLimb(a, i) == IF i <= Len(a) THEN a[i] ELSE 0

\* -1, 0 or 1 as a < b, a = b or a > b, from limb i downwards.
RECURSIVE NCmpFrom(_, _, _)
NCmpFrom(a, b, i) ==
  IF i = 0 THEN 0
  ELSE IF a[i] < b[i] THEN -1
  ELSE IF a[i] > b[i] THEN 1
  ELSE NCmpFrom(a, b, i - 1)

NCmp(a, b) ==
  IF Len(a) < Len(b) THEN -1
  ELSE IF Len(a) > Len(b) THEN 1
  ELSE NCmpFrom(a, b, Len(a))

RECURSIVE NAddFrom(_, _, _, _)
NAddFrom(a, b, i, carry) ==
  IF i > Len(a) /\ i > Len(b)
  THEN IF carry = 0 THEN <<>> ELSE <<carry>>
  ELSE LET t == NLimb(a, i) + NLimb(b, i) + carry
       IN  <<t % Base>> \o NAddFrom(a, b, i + 1, t \div Base)

NAdd(a, b) == NAddFrom(a, b, 1, 0)

\* a - b for a >= b
RECURSIVE NSubFrom(_, _, _, _)
NSubFrom(a, b, i, borrow) ==
  IF i > Len(a) THEN <<>>
  ELSE LET t == a[i] - NLimb(b, i) - borrow
       IN  IF t < 0 THEN <<t + Base>> \o NSubFrom(a, b, i + 1, 1)
           ELSE <<t>> \o NSubFrom(a, b, i + 1, 0)

NSub(a, b) == NTrim(NSubFrom(a, b, 1, 0))

\* a * d + carry for a limb d
RECURSIVE NMulLimbFrom(_, _, _, _)
NMulLimbFrom(a, d, i, carry) ==
  IF i > Len(a) THEN IF carry = 0 THEN <<>> ELSE <<carry>>
  ELSE LET t == a[i] * d + carry
       IN  <<t % Base>> \o NMulLimbFrom(a, d, i + 1, t \div Base)

NMulLimb(a, d) == IF d = 0 THEN <<>> ELSE NMulLimbFrom(a, d, 1, 0)

RECURSIVE Zeros(_)
Zeros(n) == IF n <= 0 THEN <<>> ELSE <<0>> \o Zeros(n - 1)

\* a * Base^n
NShiftLimbs(a, n) == IF a = <<>> THEN a ELSE Zeros(n) \o a

RECURSIVE NMulFrom(_, _, _)
NMulFrom(a, b, i) ==
  IF i > Len(b) THEN <<>>
  ELSE NAdd(NShiftLimbs(NMulLimb(a, b[i]), i - 1), NMulFrom(a, b, i + 1))

NMul(a, b) == IF Len(a) >= Len(b) THEN NMulFrom(a, b, 1) ELSE NMulFrom(b, a, 1)

\* a * 2^k
NShl(a, k) == NShiftLimbs(NMulLimb(a, 2 ^ (k % 15)), k \div 15)

\* The quotient of a by a limb d, from limb i downwards with remainder r.
RECURSIVE NDivLimbFrom(_, _, _, _)
NDivLimbFrom(a, d, i, r) ==
  IF i = 0 THEN <<>>
  ELSE LET t == r * Base + a[i]
       IN  Append(NDivLimbFrom(a, d, i - 1, t % d), t \div d)

RECURSIVE NModLimbFrom(_, _, _, _)
NModLimbFrom(a, d, i, r) ==
  IF i = 0 THEN r ELSE NModLimbFrom(a, d, i - 1, (r * Base + a[i]) % d)

NDivLimb(a, d) == NTrim(NDivLimbFrom(a, d, Len(a), 0))
NModLimb(a, d) == NModLimbFrom(a, d, Len(a), 0)

\* floor(a / 2^k)
NShr(a, k) ==
  IF k \div 15 >= Len(a) THEN <<>>
  ELSE NDivLimb(SubSeq(a, k \div 15 + 1, Len(a)), 2 ^ (k % 15))

\* a mod 2^k
NLow(a, k) ==
  IF k \div 15 >= Len(a) THEN a
  ELSE NTrim(Append(SubSeq(a, 1, k \div 15), a[k \div 15 + 1] % (2 ^ (k % 15))))

RECURSIVE BitLen(_)
BitLen(n) == IF n = 0 THEN 0 ELSE 1 + BitLen(n \div 2)

NBitLen(a) == IF a = <<>> THEN 0 ELSE 15 * (Len(a) - 1) + BitLen(a[Len(a)])

\* The number of 0 bits below the lowest 1 bit of n > 0.
RECURSIVE LowZeros(_)
LowZeros(n) == IF n % 2 = 1 THEN 0 ELSE 1 + LowZeros(n \div 2)

RECURSIVE NLowZerosFrom(_, _)
NLowZerosFrom(a, i) ==
  IF a[i] = 0 THEN 15 + NLowZerosFrom(a, i + 1) ELSE LowZeros(a[i])

\* Long division, one bit: st holds the quotient and the remainder of the
\* bits of a above bit i by b, the result those with bit i taken in.
NDivModBit(a, b, i, st) ==
  LET bit == (a[(i - 1) \div 15 + 1] \div (2 ^ ((i - 1) % 15))) % 2
      r2 == NAdd(NMulLimb(st.r, 2), NFromInt(bit))
      q2 == NMulLimb(st.q, 2)
  IN  IF NCmp(r2, b) >= 0
      THEN [q |-> NAdd(q2, <<1>>), r |-> NSub(r2, b)]
      ELSE [q |-> q2, r |-> r2]

\* The same for the bits hi down to lo of a.
RECURSIVE NDivModBits(_, _, _, _, _)
NDivModBits(a, b, hi, lo, st) ==
  IF hi < lo THEN st
  ELSE IF hi = lo THEN NDivModBit(a, b, hi, st)
  ELSE LET mid == (hi + lo + 1) \div 2
           upper == NDivModBits(a, b, hi, mid, st)
       \* (the test has the upper half worked out before the lower one)
       IN  IF upper.q = <<>> THEN NDivModBits(a, b, mid - 1, lo, upper)
           ELSE NDivModBits(a, b, mid - 1, lo, upper)

\* The quotient and the remainder of a by b, b # 0.
NDivMod(a, b) ==
  IF Len(b) = 1 THEN [q |-> NDivLimb(a, b[1]), r |-> NFromInt(NModLimb(a, b[1]))]
  ELSE NDivModBits(a, b, NBitLen(a), 1, [q |-> <<>>, r |-> <<>>])

\* s * M * 2^e in its one form.
Canon(s, M, e) ==
  IF M = <<>> \/ s = 0 THEN [s |-> 0, m |-> <<>>, e |-> 0]
  ELSE LET t == NLowZerosFrom(M, 1)
       IN  [s |-> s, m |-> NShr(M, t), e |-> e + t]

\* The number i, an integer of TLA+.
Num(i) == Canon(IF i < 0 THEN -1 ELSE 1, NFromInt(Abs(i)), 0)
Zero == Num(0)

\* Infinity and -Infinity, which a result beyond the largest double becomes.
Infinity(s) == [s |-> s, m |-> <<>>, e |-> MaxExponent + 1]

\* The double nearest to x, ties to the even significand.
Round(x) ==
  IF x.s = 0 THEN x
  ELSE
    LET len == NBitLen(x.m)
        top == x.e + len - 1
        keep == IF top - Precision + 1 >= MinExponent THEN Precision
                ELSE top - MinExponent + 1
    IN  IF top > MaxExponent THEN Infinity(x.s)
        ELSE IF len <= keep THEN x
        ELSE
          LET k == len - keep
              q == NShr(x.m, k)
              rest == NLow(x.m, k)
              half == NShl(<<1>>, k - 1)
              c == NCmp(rest, half)
              odd == q # <<>> /\ q[1] % 2 = 1
              up == c > 0 \/ (c = 0 /\ odd)
              r == Canon(x.s, IF up THEN NAdd(q, <<1>>) ELSE q, x.e + k)
          IN  IF r.s # 0 /\ r.e + NBitLen(r.m) - 1 > MaxExponent
              THEN Infinity(x.s) ELSE r

\* NaN, and what is neither finite nor NaN: Infinity and -Infinity.
NaN == [s |-> 0, m |-> <<>>, e |-> MaxExponent + 1]
IsNaN(a) == a = NaN
IsInfinite(a) == a.s # 0 /\ a.m = <<>>
IsFinite(a) == ~IsNaN(a) /\ ~IsInfinite(a)
\* Number.isInteger(a)
IsInteger(a) == IsFinite(a) /\ a.e >= 0

\* -a
Neg(a) == [a EXCEPT !.s = -a.s]

\* a + b, a * b and a - b of finite numbers as numbers of mathematics: no
\* rounding.
ExactPlus(a, b) ==
  IF a.s = 0 THEN b
  ELSE IF b.s = 0 THEN a
  ELSE
    LET low == IF a.e < b.e THEN a.e ELSE b.e
        A == NShl(a.m, a.e - low)
        B == NShl(b.m, b.e - low)
        c == NCmp(A, B)
    IN  IF a.s = b.s THEN Canon(a.s, NAdd(A, B), low)
        ELSE IF c = 0 THEN Canon(0, <<>>, 0)
        ELSE IF c > 0 THEN Canon(a.s, NSub(A, B), low)
        ELSE Canon(b.s, NSub(B, A), low)

ExactTimes(a, b) == Canon(a.s * b.s, NMul(a.m, b.m), a.e + b.e)
ExactMinus(a, b) == ExactPlus(a, Neg(b))

\* a + b
Plus(a, b) ==
  IF IsNaN(a) \/ IsNaN(b) THEN NaN
  ELSE IF IsInfinite(a) THEN IF IsInfinite(b) /\ a.s # b.s THEN NaN ELSE a
  ELSE IF IsInfinite(b) THEN b
  ELSE Round(ExactPlus(a, b))
\* a * b
Times(a, b) ==
  IF IsNaN(a) \/ IsNaN(b) THEN NaN
  ELSE IF IsInfinite(a) \/ IsInfinite(b)
  THEN IF a.s * b.s = 0 THEN NaN ELSE Infinity(a.s * b.s)
  ELSE Round(ExactTimes(a, b))
\* a - b
Minus(a, b) == Plus(a, Neg(b))
\* a / b: the quotient of finite numbers is worked out to two bits more than a
\* double keeps, with one more bit for a remainder, and rounded.
Over(a, b) ==
  IF IsNaN(a) \/ IsNaN(b) THEN NaN
  ELSE IF IsInfinite(a) THEN IF IsInfinite(b) THEN NaN
                             ELSE Infinity(IF b.s < 0 THEN -a.s ELSE a.s)
  ELSE IF IsInfinite(b) THEN Zero
  ELSE IF b.s = 0 THEN IF a.s = 0 THEN NaN ELSE Infinity(a.s)
  ELSE IF a.s = 0 THEN a
  ELSE
    LET k == IF Precision + 2 + NBitLen(b.m) > NBitLen(a.m)
             THEN Precision + 2 + NBitLen(b.m) - NBitLen(a.m) ELSE 0
        d == NDivMod(NShl(a.m, k), b.m)
        Q == IF d.r = <<>> THEN NMulLimb(d.q, 2) ELSE NAdd(NMulLimb(d.q, 2), <<1>>)
    IN  Round(Canon(a.s * b.s, Q, a.e - b.e - k - 1))
\* Math.floor(a)
Floor(a) ==
  IF a.e >= 0 THEN a
  ELSE LET q == NShr(a.m, -a.e)
       IN  IF a.s > 0 THEN Canon(1, q, 0) ELSE Canon(-1, NAdd(q, <<1>>), 0)
\* Math.abs(a)
AbsOf(a) == [a EXCEPT !.s = Abs(a.s)]
\* Math.sign(a)
Sign(a) == IF IsNaN(a) THEN NaN ELSE Num(a.s)
\* a < b and a <= b
Less(a, b) ==
  /\ ~IsNaN(a) /\ ~IsNaN(b) /\ a # b
  /\ IF IsInfinite(a) THEN a.s < 0
     ELSE IF IsInfinite(b) THEN b.s > 0
     ELSE ExactMinus(a, b).s < 0
Leq(a, b) == ~IsNaN(a) /\ ~IsNaN(b) /\ (a = b \/ Less(a, b))

\* The integer of TLA+ that the number a is, a being an integer below 2^30 in
\* magnitude.
RECURSIVE NToInt(_)
NToInt(a) == IF a = <<>> THEN 0 ELSE a[1] + Base * NToInt(Tail(a))
ToInt(a) == a.s * NToInt(a.m) * (2 ^ a.e)

\* The double nearest to n / d, for integers n and d # 0 of TLA+.
Rat(n, d) == Over(Num(n), Num(d))

\* An optional argument: <<>> when omitted (undefined), <<v>> when given.
Undefined == <<>>
Some(v) == <<v>>
\* o ?? d
Coalesce(o, d) == IF o = Undefined THEN d ELSE o[1]

---------------------------------------------------------------------------
\* The database (ctx.db) as the handlers use it.

\* The documents of name n in table db.
docs(db, n) == {c \in db : c.name = n}

\* Index "name" on [name, shard]: documents come back ordered by shard, then
\* by creation (_id).
Before(c, e) == c.shard < e.shard \/ (c.shard = e.shard /\ c.id < e.id)

RECURSIVE Ordered(_)
Ordered(S) ==
  IF S = {} THEN <<>>
  ELSE LET c == CHOOSE x \in S : \A y \in S \ {x} : Before(x, y)
       IN  <<c>> \o Ordered(S \ {c})

\* Variant of collect: the index is not narrowed to the name.
collectAll(db, name) == Ordered(db)

\* ctx.db.query("counters").withIndex("name", q => q.eq("name", name)).collect()
collect(db, name) == Ordered({c \in db : c.name = name})

\* Variant of byShard for composite names: the index compares the first
\* component of the name only.
byShardOfPrefix(db, name, shard) == {c \in db : c.name[1] = name[1] /\ c.shard = shard}

\* Variant of byShard: the index is narrowed to the shard only.
byShardAnyName(db, name, shard) == {c \in db : c.shard = shard}

\* ...withIndex("name", q => q.eq("name", name).eq("shard", shard)): the matches
\* that .unique() inspects.
byShard(db, name, shard) == {c \in db : c.name = name /\ c.shard = shard}

\* counters.reduce((sum, counter) => sum + counter.value, 0)
RECURSIVE reduce(_, _)
reduce(counters, sum) ==
  IF counters = <<>> THEN sum
  ELSE reduce(Tail(counters), Plus(sum, Head(counters).value))

\* counters.find((c) => c.shard === i): the first match, or <<>> for undefined.
find(counters, i) ==
  LET hits == {k \in 1..Len(counters) : counters[k].shard = i}
  IN  IF hits = {} THEN Undefined
      ELSE Some(counters[CHOOSE k \in hits : \A m \in hits : k <= m])

\* counters.filter((c) => c.shard >= shardCount)
filter(counters, shardCount) ==
  SelectSeq(counters, LAMBDA c : c.shard >= shardCount)

\* A write the handler issues.
Patch(id, value) ==
  [op |-> "patch", id |-> id, name |-> "", shard |-> 0, value |-> value]
Insert(name, shard, value) ==
  [op |-> "insert", id |-> 0, name |-> name, shard |-> shard, value |-> value]
Delete(id) ==
  [op |-> "delete", id |-> id, name |-> "", shard |-> 0, value |-> Zero]

\* Applying one write to the table; `ok` is FALSE when ctx.db throws (patch or
\* delete of a document that does not exist).
applyWrite(st, w) ==
  IF ~st.ok THEN st
  ELSE IF w.op = "insert" THEN
    [ok |-> TRUE,
     db |-> st.db \cup {[id |-> st.nid, name |-> w.name, shard |-> w.shard,
                         value |-> w.value]},
     nid |-> st.nid + 1]
  ELSE IF ~(\E c \in st.db : c.id = w.id) THEN [st EXCEPT !.ok = FALSE]
  ELSE IF w.op = "patch" THEN
    [st EXCEPT !.db = {IF c.id = w.id THEN [c EXCEPT !.value = w.value] ELSE c
                       : c \in st.db}]
  ELSE [st EXCEPT !.db = {c \in st.db : c.id # w.id}]

\* Applying the writes of a handler in the order it issued them.
RECURSIVE applyWrites(_, _)
applyWrites(st, writes) ==
  IF writes = <<>> THEN st
  ELSE applyWrites(applyWrite(st, Head(writes)), Tail(writes))

---------------------------------------------------------------------------
\* The handlers of src/component/public.ts.  A mutation handler yields
\* [threw, ret, writes]; a query handler yields its return value.

Threw == [threw |-> TRUE, ret |-> Undefined, writes |-> <<>>]
Returned(ret, writes) == [threw |-> FALSE, ret |-> ret, writes |-> writes]

\* Math.random(): the draw u is the double u / RandDen.
random(u) == Over(Num(u), Num(RandDen))

\* Math.floor(Math.random() * n)
floorOfRandomTimes(u, n) == ToInt(Floor(Times(random(u), Num(n))))

\* The same for every draw and every n from 1 to the default shard count,
\* worked out once.
floors ==
  [u \in 0..(RandDen - 1) |->
     [n \in 1..DEFAULT_SHARD_COUNT |-> floorOfRandomTimes(u, n)]]

\* Math.floor(Math.random() * n)
randomBelow(u, n) ==
  IF n \in 1..DEFAULT_SHARD_COUNT THEN floors[u][n] ELSE floorOfRandomTimes(u, n)

\* Variant of selectShard: Math.ceil in place of Math.floor.
selectShardCeil(shard, shards, u) ==
  Coalesce(shard,
           ToInt(Neg(Floor(Neg(Times(random(u),
                                     Num(Coalesce(shards, DEFAULT_SHARD_COUNT))))))))

\* Variant of selectShard: the pinned shard is ignored.
selectShardUnpinned(shard, shards, u) ==
  randomBelow(u, Coalesce(shards, DEFAULT_SHARD_COUNT))

\* add.handler, first statement: args.shard ?? Math.floor(Math.random() * (args.shards ?? DEFAULT_SHARD_COUNT))
selectShard(shard, shards, u) ==
  Coalesce(shard, randomBelow(u, Coalesce(shards, DEFAULT_SHARD_COUNT)))

\* Variant of addTo: the patch stores the delta instead of adding it.
addToOverwrites(db, name, cnt, shard) ==
  LET found == byShard(db, name, shard)
  IN  IF Cardinality(found) > 1 THEN Threw
      ELSE IF found # {} THEN
        Returned(Some(shard), <<Patch((CHOOSE c \in found : TRUE).id, cnt)>>)
      ELSE Returned(Some(shard), <<Insert(name, shard, cnt)>>)

\* Variant of addTo: the shard is inserted without looking it up.
addToInserts(db, name, cnt, shard) ==
  Returned(Some(shard), <<Insert(name, shard, cnt)>>)

\* Variant of addTo: the lookup omits .eq("shard", shard), so the first record
\* of the name is the one patched.
addToAnyShard(db, name, cnt, shard) ==
  LET counters == collect(db, name)
  IN  IF counters # <<>> THEN
        Returned(Some(shard), <<Patch(Head(counters).id, Plus(Head(counters).value, cnt))>>)
      ELSE Returned(Some(shard), <<Insert(name, shard, cnt)>>)

\* Variant of addTo: a record whose value would become 0 is deleted.
addToDropsZero(db, name, cnt, shard) ==
  LET found == byShard(db, name, shard)
  IN  IF Cardinality(found) > 1 THEN Threw
      ELSE IF found # {} THEN
        LET counter == CHOOSE c \in found : TRUE
        IN  Returned(Some(shard),
                     <<IF Plus(counter.value, cnt) = Zero THEN Delete(counter.id)
                       ELSE Patch(counter.id, Plus(counter.value, cnt))>>)
      ELSE Returned(Some(shard), <<Insert(name, shard, cnt)>>)

\* Variant of addTo: an existing record is replaced, deleted and inserted
\* anew with the sum, in place of being patched.
addToReplaces(db, name, cnt, shard) ==
  LET found == byShard(db, name, shard)
  IN  IF Cardinality(found) > 1 THEN Threw
      ELSE IF found # {} THEN
        LET counter == CHOOSE c \in found : TRUE
        IN  Returned(Some(shard),
                     <<Delete(counter.id),
                       Insert(name, shard, Plus(counter.value, cnt))>>)
      ELSE Returned(Some(shard), <<Insert(name, shard, cnt)>>)

\* add.handler, the read-modify-write of the selected shard.
addTo(db, name, cnt, shard) ==
  LET found == byShard(db, name, shard)
  IN  IF Cardinality(found) > 1 THEN Threw       \* .unique() throws
      ELSE IF found # {} THEN
        LET counter == CHOOSE c \in found : TRUE
        IN  Returned(Some(shard), <<Patch(counter.id, Plus(counter.value, cnt))>>)
      ELSE Returned(Some(shard), <<Insert(name, shard, cnt)>>)

\* add.handler
add(db, name, cnt, shard, shards, u) ==
  addTo(db, name, cnt, selectShard(shard, shards, u))

\* Variant of count: only the first document of the name is read (.first()
\* in place of .collect()).
countFirst(db, name) ==
  LET counters == collect(db, name)
  IN  reduce(IF counters = <<>> THEN <<>> ELSE <<Head(counters)>>, Zero)

\* count.handler
count(db, name) == reduce(collect(db, name), Zero)

\* Variant of rebalanceValue: the total is not divided.
rebalanceValueTotal(cnt, shardCount) == cnt

\* Variant of rebalanceValue: the integer part of the quotient.
rebalanceValueFloor(cnt, shardCount) == Floor(Over(cnt, Num(shardCount)))

\* rebalance.handler, the value every shard is set to: count / shardCount
rebalanceValue(cnt, shardCount) == Over(cnt, Num(shardCount))

\* Variant of rebalanceShard: the share is added to what the shard holds.
rebalanceShardAdds(counters, name, value, i) ==
  LET shard == find(counters, i)
  IN  IF shard # Undefined THEN Patch(shard[1].id, Plus(shard[1].value, value))
      ELSE Insert(name, i, value)

\* rebalance.handler, body of the loop `for (let i = 0; i < shardCount; i++)`
rebalanceShard(counters, name, value, i) ==
  LET shard == find(counters, i)
  IN  IF shard # Undefined THEN Patch(shard[1].id, value)
      ELSE Insert(name, i, value)

\* Variant of rebalanceDeletes: the shard at index shardCount is kept.
rebalanceDeletesAbove(counters, shardCount) ==
  LET toDelete == filter(counters, shardCount + 1)
  IN  [k \in 1..Len(toDelete) |-> Delete(toDelete[k].id)]

\* rebalance.handler, the deletes of the shards at or above shardCount
rebalanceDeletes(counters, shardCount) ==
  LET toDelete == filter(counters, shardCount)
  IN  [k \in 1..Len(toDelete) |-> Delete(toDelete[k].id)]

\* rebalance.handler
rebalance(db, name, shards) ==
  LET counters == collect(db, name)
      cnt == reduce(counters, Zero)
      shardCount == Coalesce(shards, DEFAULT_SHARD_COUNT)
      value == rebalanceValue(cnt, shardCount)
  IN  Returned(Undefined,
        [k \in 1..shardCount |-> rebalanceShard(counters, name, value, k - 1)]
        \o rebalanceDeletes(counters, shardCount))

\* Variant of baseCount: Math.trunc in place of Math.floor.
baseCountTrunc(cnt, shardCount) ==
  LET q == Over(cnt, Num(shardCount))
  IN  IF q.s >= 0 THEN Floor(q) ELSE Neg(Floor(Neg(q)))

\* rebalance.handler of the remainder-distributing version:
\* baseCount = Math.floor(count / shardCount)
baseCount(cnt, shardCount) == Floor(Over(cnt, Num(shardCount)))

\* ... remainder = count - (baseCount * shardCount)
remainderOf(cnt, shardCount) ==
  Minus(cnt, Times(baseCount(cnt, shardCount), Num(shardCount)))

\* ... nextExtra = Math.abs(remainder) >= 1 ? Math.sign(remainder) : remainder
nextExtra(rem) == IF Leq(Num(1), AbsOf(rem)) THEN Sign(rem) ELSE rem

\* The greatest length of an array, 2^32 - 1.
MaxArrayLength == Minus(Times(Num(2 ^ 16), Num(2 ^ 16)), Num(1))

\* ... the loop `while (Math.abs(remainder) > 0)`, from a running remainder
\* and the extras pushed so far: <<extraCounts>> when the loop ends.  A pass
\* takes at most 1 off the remainder, and none when remainder - nextExtra
\* rounds to remainder, so a remainder above the greatest length of an array
\* has the loop push until the array cannot grow (memory runs out or push
\* throws): the result is <<>>.
RECURSIVE whileRemainder(_, _)
whileRemainder(rem, extras) ==
  IF ~Less(Zero, AbsOf(rem)) THEN Some(extras)
  ELSE IF Less(MaxArrayLength, AbsOf(rem)) THEN Undefined
  ELSE whileRemainder(Minus(rem, nextExtra(rem)), Append(extras, nextExtra(rem)))

\* Variant of extraCounts: the whole remainder is pushed as one extra.
extraCountsOnce(rem) == IF ~Less(Zero, AbsOf(rem)) THEN Some(<<>>) ELSE Some(<<rem>>)

\* ... extraCounts after the loop, from the remainder it starts with.
extraCounts(rem) == whileRemainder(rem, <<>>)

\* rebalance.handler of the remainder-distributing version: every shard gets
\* Math.floor(count / shardCount), the first shards one extra each.
rebalanceRemainder(db, name, shards) ==
  LET counters == collect(db, name)
      cnt == reduce(counters, Zero)
      shardCount == Coalesce(shards, DEFAULT_SHARD_COUNT)
      extras == extraCounts(remainderOf(cnt, shardCount))
      value(i) == Plus(baseCount(cnt, shardCount),
                       IF i < Len(extras[1]) THEN extras[1][i + 1] ELSE Zero)
  IN  IF extras = Undefined THEN Threw
      ELSE Returned(Undefined,
             [k \in 1..shardCount |->
                rebalanceShard(counters, name, value(k - 1), k - 1)]
             \o rebalanceDeletes(counters, shardCount))

\* Variant of reset: the first shard is left in place.
resetTail(db, name) ==
  LET counters == collect(db, name)
  IN  Returned(Undefined, [k \in 1..(Len(counters) - 1) |-> Delete(counters[k + 1].id)])

\* reset.handler
reset(db, name) ==
  LET counters == collect(db, name)
  IN  Returned(Undefined, [k \in 1..Len(counters) |-> Delete(counters[k].id)])

\* shuffle: the loop `for (let i = array.length - 1; i > 0; i--)`, i counted
\* from 0 as in the source; tape[t] is the t-th draw of Math.random().
RECURSIVE shuffleFrom(_, _, _, _)
shuffleFrom(array, i, tape, t) ==
  IF ~(i > 0) THEN array
  ELSE LET j == randomBelow(tape[t], i + 1)
       IN  shuffleFrom([array EXCEPT ![i + 1] = array[j + 1], ![j + 1] = array[i + 1]],
                       i - 1, tape, t + 1)

\* shuffle(array)
shuffle(array, tape) == shuffleFrom(array, Len(array) - 1, tape, 1)

\* Variant of shuffleBy: the loop stops at `i > 1`, so the last swap is left
\* out.
RECURSIVE shuffleByShort(_, _, _, _)
shuffleByShort(array, i, js, t) ==
  IF ~(i > 1) THEN array
  ELSE LET j == js[t]
       IN  shuffleByShort([array EXCEPT ![i + 1] = array[j + 1], ![j + 1] = array[i + 1]],
                          i - 1, js, t + 1)

\* shuffle, the same loop with the values of j given: js[t] is the j of the
\* t-th pass, the one with i = array.length - t.
RECURSIVE shuffleBy(_, _, _, _)
shuffleBy(array, i, js, t) ==
  IF ~(i > 0) THEN array
  ELSE LET j == js[t]
       IN  shuffleBy([array EXCEPT ![i + 1] = array[j + 1], ![j + 1] = array[i + 1]],
                     i - 1, js, t + 1)

\* The values j = Math.floor(Math.random() * (i + 1)) that the draws of a tape
\* give in a shuffle of an array of the given length.
drawsOf(length, tape) ==
  [t \in 1..(length - 1) |-> randomBelow(tape[t], length - t + 1)]

\* The sequences of values j can take in a shuffle of an array of the given
\* length: 0 .. i in the pass with i = length - t.
JSeqs(length) ==
  {js \in [1..(length - 1) -> 0..(length - 1)] :
     \A t \in 1..(length - 1) : js[t] <= length - t}

Min(a, b) == IF a < b THEN a ELSE b
Max(a, b) == IF a > b THEN a ELSE b

\* Variant of clampReads: the sample stops one short of the shard count.
clampReadsShort(readFromShards, shardCount) ==
  Max(1, Min(Max(1, Coalesce(readFromShards, 1)), shardCount - 1))

\* estimateCount.handler: Math.min(Math.max(1, args.readFromShards ?? 1), shardCount)
clampReads(readFromShards, shardCount) ==
  Min(Max(1, Coalesce(readFromShards, 1)), shardCount)

\* Array.from({length}, (_, i) => i): the array <<0, 1, ..., length - 1>>, built
\* element by element.
RECURSIVE arrayFrom(_)
arrayFrom(length) ==
  IF length = 0 THEN <<>> ELSE Append(arrayFrom(length - 1), length - 1)

\* Variant of sample: every index is drawn on its own, Math.floor(Math.random()
\* * shardCount), so an index can come twice.
sampleWithReplacement(shardCount, readFromShards, tape) ==
  [t \in 1..readFromShards |-> randomBelow(tape[t], shardCount)]

\* estimateCount.handler: shuffle(Array.from({length: shardCount}, (_, i) => i)).slice(0, readFromShards)
sample(shardCount, readFromShards, tape) ==
  SubSeq(shuffle(arrayFrom(shardCount), tape), 1, readFromShards)

\* Variant of readShards: a sampled index without a record makes the call
\* throw.
RECURSIVE readShardsStrict(_, _, _, _)
readShardsStrict(db, name, shards, readCount) ==
  IF shards = <<>> THEN Some(readCount)
  ELSE LET found == byShard(db, name, Head(shards))
       IN  IF Cardinality(found) # 1 THEN Undefined
           ELSE readShardsStrict(db, name, Tail(shards),
                                 Plus(readCount, (CHOOSE c \in found : TRUE).value))

\* estimateCount.handler: the loop `for (const shard of shards)`; <<>> when
\* .unique() throws.
RECURSIVE readShards(_, _, _, _)
readShards(db, name, shards, readCount) ==
  IF shards = <<>> THEN Some(readCount)
  ELSE LET found == byShard(db, name, Head(shards))
       IN  IF Cardinality(found) > 1 THEN Undefined
           ELSE IF found # {} THEN
             readShards(db, name, Tail(shards),
                        Plus(readCount, (CHOOSE c \in found : TRUE).value))
           ELSE readShards(db, name, Tail(shards), readCount)

\* Variant of estimateCount: the sum read is returned without extrapolation.
estimateCountRaw(db, name, readFromShardsArg, shardsArg, tape) ==
  LET shardCount == Coalesce(shardsArg, DEFAULT_SHARD_COUNT)
      readFromShards == clampReads(readFromShardsArg, shardCount)
  IN  readShards(db, name, sample(shardCount, readFromShards, tape), Zero)

\* Variant of estimateOver: the factors of the extrapolation are swapped.
estimateOverSwapped(db, name, shards, shardCount, readFromShards) ==
  LET readCount == readShards(db, name, shards, Zero)
  IN  IF readCount = Undefined THEN Undefined
      ELSE Some(Over(Times(readCount[1], Num(readFromShards)), Num(shardCount)))

\* estimateCount.handler from the sampled `shards` on: the reads and
\* `return (readCount * shardCount) / readFromShards`.
estimateOver(db, name, shards, shardCount, readFromShards) ==
  LET readCount == readShards(db, name, shards, Zero)
  IN  IF readCount = Undefined THEN Undefined
      ELSE Some(Over(Times(readCount[1], Num(shardCount)), Num(readFromShards)))

\* estimateCount.handler: <<estimate>>, or <<>> when it throws.
estimateCount(db, name, readFromShardsArg, shardsArg, tape) ==
  LET shardCount == Coalesce(shardsArg, DEFAULT_SHARD_COUNT)
      readFromShards == clampReads(readFromShardsArg, shardCount)
  IN  estimateOver(db, name, sample(shardCount, readFromShards, tape),
                   shardCount, readFromShards)

---------------------------------------------------------------------------
\* Arguments the callers pass.

\* Counter keys: strings (name: v.string()), those of the example.
Names == {"beans", "users"}

\* args.count: a negative integer, zero, and the fraction 0.1, which no double
\* is equal to.
Deltas == {Num(-1), Zero, Rat(1, 10)}

\* args.shards: omitted, or a positive integer.
ShardsArgs == {Undefined} \cup {Some(s) : s \in 1..MaxShards}

\* args.shards of the rebalances and estimates of a filled table: also a count
\* that is not a power of two, by which a division rounds.
RebalanceShardsArgs == ShardsArgs \cup {Some(MaxShards + 1)}

\* 2^53: up to it every integer is a double.
TwoTo53 == Times(Num(2 ^ 26), Num(2 ^ 27))

\* Large totals: -(2^53 - 16), among the integers that are doubles;
\* 30000000000000004, above 2^53, where the doubles are 4 apart; and 1e34,
\* above 2^106.
Totals ==
  {Neg(Minus(TwoTo53, Num(16))),
   Plus(Times(Num(300000000), Num(100000000)), Num(4)),
   Times(Times(Num(100000000), Num(1000000000)),
         Times(Num(100000000), Num(1000000000)))}

\* args.shards as the validator v.optional(v.number()) admits it: also zero
\* and negative numbers.
AnyShardsArgs == ShardsArgs \cup {Some(0), Some(-1)}

\* args.shard: omitted, or a pinned index (MaxShards lies outside every
\* explicit shard count).
ShardArgs == {Undefined} \cup {Some(i) : i \in 0..MaxShards}

\* args.shards of the calls that pin a shard: omitted (the pinned index lies
\* within the default count) or 1 (every pinned index above 0 lies outside).
PinnedShardsArgs == {Undefined, Some(1)}

\* args.readFromShards: omitted, or a number from 0 (below the least sample) to
\* MaxShards + 1 (above every explicit shard count).
ReadsArgs == {Undefined} \cup {Some(k) : k \in 0..(MaxShards + 1)}

\* The draws of Math.random(), as numerators over RandDen.
Draws == 0..(RandDen - 1)

\* The draws of one shuffle: seed, seed + stride, seed + 2 stride, ... (mod RandDen).
Tape(seed, stride) ==
  [t \in 1..DEFAULT_SHARD_COUNT |-> (seed + (t - 1) * stride) % RandDen]
Tapes == {Tape(seed, stride) : seed \in Draws, stride \in Draws}

---------------------------------------------------------------------------
\* State.

NoCall ==
  [op |-> "none", name |-> "", count |-> Zero, shard |-> Undefined,
   shards |-> Undefined, reads |-> Undefined, ret |-> Undefined, threw |-> FALSE,
   tries |-> 1, wrote |-> 0, via |-> "none", arg |-> Undefined, nth |-> 0,
   after |-> 0, settled |-> FALSE, keeps |-> FALSE]

Idle ==
  [pc |-> "idle", call |-> NoCall, r |-> Returned(Undefined, <<>>),
   range |-> [name |-> "", shard |-> Undefined], stale |-> FALSE,
   rounded |-> FALSE]

Procs == 1..NumProcs

\* new ShardedCounter(component) without options, before its first call.
\* stickyShard is the field of the class; the rest is history: per key the
\* number of adds issued, the shard returned to the one issued first, the
\* shards returned so far in the order of the returns, whether an add was
\* issued while another of the key was in flight, and the number of adds
\* committed; the latest mutation committed through the client, when it was an
\* add, subtract, inc or dec, with the count of its key before it, whether
\* that count was summed without rounding and whether the add rounded
\* (recent), and the one before (earlier).
NoMethod ==
  [via |-> "none", name |-> "", arg |-> Undefined, total |-> Zero,
   exact |-> TRUE, rounded |-> FALSE]

NoClient ==
  [options |-> [shards |-> <<>>, defaultShards |-> Undefined],
   stickyShard |-> [n \in Names |-> Undefined],
   first |-> [n \in Names |-> Undefined],
   issued |-> [n \in Names |-> 0],
   returned |-> [n \in Names |-> <<>>],
   overlapped |-> [n \in Names |-> FALSE],
   adds |-> [n \in Names |-> 0],
   recent |-> NoMethod,
   earlier |-> NoMethod]

\* No count query has been issued.  base is the sum of the adds to the name
\* committed when the query was issued, conc the deltas of the adds to the name
\* committed since, read the records its collect() returned.
NoReader ==
  [pc |-> "idle", name |-> "", base |-> Zero, conc |-> <<>>, read |-> {},
   ret |-> Undefined]

\* The application (example/convex): no table of its own holds a document,
\* and its ShardedCounter instance has made no call.
\* users is the table `users`; stickyShard is the field of the instance;
\* installed is history: the size of `users` and the count of its key when the
\* trigger was registered.
\* checkboxes is the table `checkboxes`, and checkboxesBefore (history) what it
\* held before the latest mutation.  backfillCursor is the document of the
\* table `backfillCursor` and backfill the run of the action backfillUsers: where
\* it is, its variable `cursor`, and in `result` what the mutation it awaits
\* has returned, until the action resumes and reads it.  History: live and paged list the _id of
\* the user of every counter.add made by insertUserDuringBackfill and by
\* backfillUsersBatch, in order; late holds the users inserted after
\* backfillUsers returned.
NoApp ==
  [users |-> {}, clock |-> 0,
   stickyShard |-> [n \in {"beans", "users", "checkboxes"} |-> Undefined],
   installed |-> [docs |-> 0, total |-> Zero],
   checkboxes |-> {}, checkboxesBefore |-> {},
   backfillCursor |-> Undefined,
   backfill |-> [pc |-> "idle", cursor |-> Undefined, result |-> Undefined],
   live |-> <<>>, paged |-> <<>>, late |-> {}]

Init ==
  /\ store = {}
  /\ nextId = 1
  /\ last = NoCall
  /\ prev = {}
  /\ added = [n \in Names |-> Zero]
  /\ touched = [n \in Names |-> {}]
  /\ nops = 0
  /\ txn = [p \in Procs |-> Idle]
  /\ reader = NoReader
  /\ client = NoClient
  /\ app = NoApp

\* The sum of the values of a set of records as a number of mathematics.
RECURSIVE exactSum(_)
exactSum(cs) ==
  IF cs = {} THEN Zero
  ELSE LET c == CHOOSE c \in cs : TRUE
       IN  ExactPlus(c.value, exactSum(cs \ {c}))

\* The quotient cnt / shardCount is a double: the division does not round.
divides(cnt, shardCount) ==
  ExactTimes(Over(cnt, Num(shardCount)), Num(shardCount)) = cnt

\* No addition of counters.reduce((sum, counter) => sum + counter.value, sum)
\* rounds.
RECURSIVE addsExactly(_, _)
addsExactly(counters, sum) ==
  \/ counters = <<>>
  \/ /\ Plus(sum, Head(counters).value) = ExactPlus(sum, Head(counters).value)
     /\ addsExactly(Tail(counters), Plus(sum, Head(counters).value))

\* The values of the records of name n in db add up, in the order of the
\* index, without rounding.
sumsExactly(db, n) == addsExactly(collect(db, n), Zero)

\* The mutation `call` rounds: an add, which returned the shard r.ret, met a
\* value there that its count cannot be added to without rounding; a
\* rebalance summed or divided with rounding.
rounds(db, call, r) ==
  \/ /\ call.op = "add" /\ r.ret # Undefined
     /\ \E c \in byShard(db, call.name, r.ret[1]) :
          Plus(c.value, call.count) # ExactPlus(c.value, call.count)
  \/ /\ call.op = "rebalance"
     /\ \/ ~sumsExactly(db, call.name)
        \/ ~divides(count(db, call.name), Coalesce(call.shards, DEFAULT_SHARD_COUNT))

\* A mutation commits: its writes reach the table all together, or, when the
\* handler or a write threw, not at all.  rounded tells whether the handler's
\* arithmetic rounded on the snapshot it read.
CommitsAs(call, r, rounded) ==
  LET st == applyWrites([ok |-> TRUE, db |-> store, nid |-> nextId], r.writes)
      failed == r.threw \/ ~st.ok
  IN  /\ store' = IF failed THEN store ELSE st.db
      /\ nextId' = IF failed THEN nextId ELSE st.nid
      /\ last' = [call EXCEPT !.ret = r.ret, !.threw = failed]
      /\ prev' = store
      /\ added' = IF call.op = "add" /\ ~failed
                  THEN [added EXCEPT ![call.name] = ExactPlus(@, call.count)]
                  ELSE added
      /\ touched' = IF failed THEN touched
                    ELSE [touched EXCEPT ![call.name] =
                            @ \cup {call.op}
                              \cup (IF rounded THEN {"rounded"} ELSE {})]
      /\ reader' = IF /\ reader.pc \in {"called", "read"}
                      /\ call.op = "add" /\ ~failed /\ call.name = reader.name
                   THEN [reader EXCEPT !.conc = Append(@, call.count)]
                   ELSE reader

\* A mutation that ran on the current table commits.
Commits(call, r) == CommitsAs(call, r, rounds(store, call, r))

\* The table after a handler threw with the first k of its writes completed
\* (each write is an `await ctx.db...` of the handler, so the writes before
\* the one that throws have returned).  The handlers catch nothing and undo
\* nothing, and the runtime that runs them is not part of the repository:
\* README (200-210) describes mutations as transactions, by which the writes
\* of a handler that throws are all discarded (keeps = FALSE); were the writes
\* applied as they are awaited, the first k would stay (keeps = TRUE).
thrown(db, nid, writes, k, keeps) ==
  IF keeps
  THEN [applyWrites([ok |-> TRUE, db |-> db, nid |-> nid], SubSeq(writes, 1, k))
          EXCEPT !.ok = FALSE]
  ELSE [ok |-> FALSE, db |-> db, nid |-> nid]

\* The call fails and the error reaches the caller.  With k < Len(r.writes) the
\* database throws during the handler, after k writes (on a read when k = 0
\* and on write k + 1 alike: the write that throws is not applied).  With
\* k = Len(r.writes) the handler has returned and the commit is refused (a
\* conflict): only a transaction has a commit, so its writes are discarded.
Fails(call, r, k, keeps) ==
  /\ keeps => k < Len(r.writes)
  /\ store' = thrown(store, nextId, r.writes, k, keeps).db
  /\ nextId' = thrown(store, nextId, r.writes, k, keeps).nid
  /\ last' = [call EXCEPT !.threw = TRUE, !.wrote = k, !.keeps = keeps]
  /\ prev' = store
  /\ UNCHANGED <<added, touched, reader>>

\* A query returns: nothing is written.
Answers(call, ret) ==
  /\ last' = [call EXCEPT !.ret = ret, !.threw = (ret = Undefined)]
  /\ prev' = store
  /\ UNCHANGED <<store, nextId, added, touched>>

---------------------------------------------------------------------------
\* Spec: the functions are called one after another.

CallAdd ==
  \E name \in Names, cnt \in Deltas, shard \in ShardArgs, shards \in ShardsArgs,
     u \in Draws :
    /\ nops < MaxOps
    /\ shard # Undefined => u = 0 /\ shards \in PinnedShardsArgs
    /\ Commits([NoCall EXCEPT !.op = "add", !.name = name, !.count = cnt,
                              !.shard = shard, !.shards = shards],
               add(store, name, cnt, shard, shards, u))
    /\ nops' = nops + 1
    /\ UNCHANGED <<txn, client, app>>

CallRebalance ==
  \E name \in Names, shards \in ShardsArgs :
    /\ nops < MaxOps
    /\ Commits([NoCall EXCEPT !.op = "rebalance", !.name = name, !.shards = shards],
               rebalance(store, name, shards))
    /\ nops' = nops + 1
    /\ UNCHANGED <<txn, client, app>>

CallReset ==
  \E name \in Names :
    /\ nops < MaxOps
    /\ Commits([NoCall EXCEPT !.op = "reset", !.name = name], reset(store, name))
    /\ nops' = nops + 1
    /\ UNCHANGED <<txn, client, app>>

CallCount ==
  \E name \in Names :
    /\ Answers([NoCall EXCEPT !.op = "count", !.name = name],
               Some(count(store, name)))
    /\ UNCHANGED <<nops, txn, reader, client, app>>

\* estimateCount reads the table and draws at random; it writes nothing, and
\* the properties evaluate its handler on the states the mutations reach.
Next == CallAdd \/ CallRebalance \/ CallReset \/ CallCount

Spec == Init /\ [][Next]_vars

---------------------------------------------------------------------------
\* SpecEstimate: estimateCount is called on a table that pinned adds have
\* filled: one name holds, at each shard index 0 .. MaxShards, no record or a
\* record with some value.

\* The table in which name holds the value held[i][1] at each shard i with
\* held[i] # <<>>, the records created in the order of their shards.
tableOf(name, held) ==
  {[id |-> Cardinality({j \in 0..i : held[j] # Undefined}), name |-> name,
    shard |-> i, value |-> held[i][1]] : i \in {j \in DOMAIN held : held[j] # Undefined}}

Tables ==
  {tableOf(name, held) :
     name \in Names,
     held \in [0..MaxShards -> {Undefined} \cup {Some(d) : d \in Deltas}]}

\* The tables in which one add of a large count has created one shard.
TablesOfTotals ==
  {tableOf(name, [i \in 0..MaxShards |-> IF i = s THEN Some(T) ELSE Undefined]) :
     name \in Names, s \in 0..MaxShards, T \in Totals}

InitOn(tables) ==
  /\ store \in tables
  /\ nextId = Cardinality(store) + 1
  /\ last = NoCall
  /\ prev = store
  /\ added = [n \in Names |-> exactSum(docs(store, n))]
  /\ touched = [n \in Names |-> IF docs(store, n) = {} THEN {} ELSE {"add"}]
  /\ nops = 0
  /\ txn = [p \in Procs |-> Idle]
  /\ reader = NoReader
  /\ client = NoClient
  /\ app = NoApp

InitTables == InitOn(Tables)

\* The query writes nothing, so a second call would meet the same table: one
\* call is made on each.
CallEstimateCount ==
  \E name \in Names, reads \in ReadsArgs, shards \in RebalanceShardsArgs,
     tape \in Tapes :
    /\ last = NoCall
    /\ Answers([NoCall EXCEPT !.op = "estimateCount", !.name = name,
                              !.shards = shards, !.reads = reads],
               estimateCount(store, name, reads, shards, tape))
    /\ UNCHANGED <<nops, txn, reader, client, app>>

SpecEstimate == InitTables /\ [][CallEstimateCount]_vars

---------------------------------------------------------------------------
\* SpecRebalance: a table that pinned adds have filled, with counts of Deltas
\* or with one large count, is rebalanced, by the handler of public.ts (even
\* division), once or twice in a row, or by the remainder-distributing one.

CallRebalanceFirst ==
  \E name \in Names, shards \in RebalanceShardsArgs :
    /\ nops = 0
    /\ Commits([NoCall EXCEPT !.op = "rebalance", !.name = name, !.shards = shards],
               rebalance(store, name, shards))
    /\ nops' = nops + 1
    /\ UNCHANGED <<txn, client, app>>

CallRebalanceRemainder ==
  \E name \in Names, shards \in RebalanceShardsArgs :
    /\ nops = 0
    /\ Commits([NoCall EXCEPT !.op = "rebalanceRemainder", !.name = name,
                              !.shards = shards],
               rebalanceRemainder(store, name, shards))
    /\ nops' = nops + 1
    /\ UNCHANGED <<txn, client, app>>

\* The rebalance that has just committed is called once more, with the same
\* name and shard count and nothing written in between.
CallRebalanceAgain ==
  /\ nops = 1
  /\ last.op = "rebalance"
  /\ Commits([NoCall EXCEPT !.op = "rebalance", !.name = last.name,
                            !.shards = last.shards],
             rebalance(store, last.name, last.shards))
  /\ nops' = nops + 1
  /\ UNCHANGED <<txn, client, app>>

NextRebalance == CallRebalanceFirst \/ CallRebalanceRemainder \/ CallRebalanceAgain

InitRebalance == InitOn(Tables \cup TablesOfTotals)

SpecRebalance == InitRebalance /\ [][NextRebalance]_vars

---------------------------------------------------------------------------
\* SpecStep: one mutation is called on a table that pinned adds have filled.

CallAddFirst ==
  /\ nops = 0
  /\ CallAdd

\* An add that takes back what a shard holds: pinned to the shard, its count
\* the negation of the shard's value.
CallAddBack ==
  \E c \in store :
    /\ nops = 0
    /\ Commits([NoCall EXCEPT !.op = "add", !.name = c.name, !.count = Neg(c.value),
                              !.shard = Some(c.shard)],
               add(store, c.name, Neg(c.value), Some(c.shard), Undefined, 0))
    /\ nops' = nops + 1
    /\ UNCHANGED <<txn, client, app>>

CallResetFirst ==
  /\ nops = 0
  /\ CallReset

NextStep == CallAddFirst \/ CallAddBack \/ CallRebalanceFirst \/ CallResetFirst

SpecStep == InitTables /\ [][NextStep]_vars

---------------------------------------------------------------------------
\* SpecShuffle: shuffle is applied to an array.  last.arg holds the array,
\* last.reads the values of j and last.ret the array returned.

\* The arrays handed to shuffle: up to MaxShards + 1 elements, equal elements
\* allowed.
Arrays == UNION {[1..n -> 0..MaxShards] : n \in 0..(MaxShards + 1)}

InitShuffle ==
  /\ store = {}
  /\ nextId = 1
  /\ last \in {[NoCall EXCEPT !.op = "array", !.arg = array] : array \in Arrays}
  /\ prev = {}
  /\ added = [n \in Names |-> Zero]
  /\ touched = [n \in Names |-> {}]
  /\ nops = 0
  /\ txn = [p \in Procs |-> Idle]
  /\ reader = NoReader
  /\ client = NoClient
  /\ app = NoApp

CallShuffle ==
  \E js \in JSeqs(Len(last.arg)) :
    /\ last.op = "array"
    /\ last' = [last EXCEPT !.op = "shuffle", !.reads = js,
                            !.ret = shuffleBy(last.arg, Len(last.arg) - 1, js, 1)]
    /\ UNCHANGED <<store, nextId, prev, added, touched, nops, txn, reader, client, app>>

SpecShuffle == InitShuffle /\ [][CallShuffle]_vars

---------------------------------------------------------------------------
\* SpecLoop: the loop `while (Math.abs(remainder) > 0)` of the
\* remainder-distributing rebalance, one pass at a time.  last.count holds the
\* total `count`, last.shards the argument `shards`, last.ret the running
\* `remainder` and last.arg the array `extraCounts`.

\* The totals the loop is run for: the multiples of 1/2 from -(MaxShards + 1)
\* to MaxShards + 1, 2.3 and the large totals.
LoopTotals ==
  {Rat(k, 2) : k \in (-2 * (MaxShards + 1))..(2 * (MaxShards + 1))}
  \cup {Rat(23, 10)} \cup Totals

\* The passes the loop is followed for: more than any shard count has shards.
MaxPasses == DEFAULT_SHARD_COUNT + MaxShards

InitLoop ==
  /\ store = {}
  /\ nextId = 1
  /\ last \in {[NoCall EXCEPT !.op = "while", !.count = T, !.shards = shards,
                               !.ret = Some(remainderOf(T, Coalesce(shards, DEFAULT_SHARD_COUNT))),
                               !.arg = <<>>] :
                 T \in LoopTotals, shards \in RebalanceShardsArgs}
  /\ prev = {}
  /\ added = [n \in Names |-> Zero]
  /\ touched = [n \in Names |-> {}]
  /\ nops = 0
  /\ txn = [p \in Procs |-> Idle]
  /\ reader = NoReader
  /\ client = NoClient
  /\ app = NoApp

\* One pass of the loop.
LoopPass ==
  /\ last.op = "while"
  /\ Less(Zero, AbsOf(last.ret[1]))
  /\ Len(last.arg) < MaxPasses
  /\ last' = [last EXCEPT !.arg = Append(@, nextExtra(last.ret[1])),
                          !.ret = Some(Minus(last.ret[1], nextExtra(last.ret[1])))]
  /\ UNCHANGED <<store, nextId, prev, added, touched, nops, txn, reader, client, app>>

SpecLoop == InitLoop /\ [][LoopPass]_vars

---------------------------------------------------------------------------
\* SpecFail: a mutation on a table that pinned adds have filled fails (an error
\* of the database, or a conflict that is not retried) at any point of its
\* handler: before its first write, between two writes, or after the last;
\* the writes it had completed are discarded or stay (see thrown).

FailAdd ==
  \E name \in Names, cnt \in Deltas, shard \in ShardArgs, shards \in PinnedShardsArgs,
     u \in Draws :
    /\ nops = 0
    /\ shard # Undefined => u = 0
    /\ LET r == add(store, name, cnt, shard, shards, u)
       IN  \E k \in 0..Len(r.writes), keeps \in BOOLEAN :
             Fails([NoCall EXCEPT !.op = "add", !.name = name, !.count = cnt,
                                  !.shard = shard, !.shards = shards], r, k, keeps)
    /\ nops' = nops + 1
    /\ UNCHANGED <<txn, client, app>>

FailRebalance ==
  \E name \in Names, shards \in ShardsArgs :
    /\ nops = 0
    /\ LET r == rebalance(store, name, shards)
       IN  \E k \in 0..Len(r.writes), keeps \in BOOLEAN :
             Fails([NoCall EXCEPT !.op = "rebalance", !.name = name,
                                  !.shards = shards], r, k, keeps)
    /\ nops' = nops + 1
    /\ UNCHANGED <<txn, client, app>>

NextFail == FailAdd \/ FailRebalance

SpecFail == InitTables /\ [][NextFail]_vars

---------------------------------------------------------------------------
\* SpecAnyShards: the functions are called one after another with every
\* `shards` the argument validators let through.

CallAddAnyShards ==
  \E name \in Names, cnt \in Deltas, shards \in AnyShardsArgs, u \in Draws :
    /\ nops < MaxOps
    /\ Commits([NoCall EXCEPT !.op = "add", !.name = name, !.count = cnt,
                              !.shards = shards],
               add(store, name, cnt, Undefined, shards, u))
    /\ nops' = nops + 1
    /\ UNCHANGED <<txn, client, app>>

CallRebalanceAnyShards ==
  \E name \in Names, shards \in AnyShardsArgs :
    /\ nops < MaxOps
    /\ Commits([NoCall EXCEPT !.op = "rebalance", !.name = name, !.shards = shards],
               rebalance(store, name, shards))
    /\ nops' = nops + 1
    /\ UNCHANGED <<txn, client, app>>

NextAnyShards == CallAddAnyShards \/ CallRebalanceAnyShards

SpecAnyShards == Init /\ [][NextAnyShards]_vars

---------------------------------------------------------------------------
\* The calls of the concurrent clients: adds of 0.1 that draw a shard out of 1
\* (always shard 0) or pin shard 1, rebalances onto 2 or 3 shards.
TxnDeltas == {Rat(1, 10)}
TxnAddArgs == {<<Undefined, Some(1)>>, <<Some(1), Undefined>>}
TxnShardsArgs == {Some(2), Some(3)}

\* SpecTxn: clients run mutations concurrently.  A Convex mutation is a
\* transaction with serializable isolation under optimistic concurrency
\* control (README, "serializable results"): the handler runs against the
\* snapshot taken when it starts, its writes are buffered, and it commits only
\* if nothing it read was written in the meantime; otherwise it is run again.

\* Variant of readRange: rebalance and reset read shard 0 only.
readRangeFirst(call, u) ==
  [name |-> call.name,
   shard |-> IF call.op = "add"
             THEN Some(selectShard(call.shard, call.shards, u)) ELSE Some(0)]

\* The index range a handler reads: for add the key (name, shard) of the shard
\* it selected, whether .unique() then returns or throws; every key of the
\* name for rebalance and reset.
readRange(call, u) ==
  [name |-> call.name,
   shard |-> IF call.op = "add"
             THEN Some(selectShard(call.shard, call.shards, u)) ELSE Undefined]

\* Running the handler of `call` against db, u being add's random draw.
handle(db, call, u) ==
  IF call.op = "add"
  THEN add(db, call.name, call.count, call.shard, call.shards, u)
  ELSE IF call.op = "rebalance" THEN rebalance(db, call.name, call.shards)
  ELSE reset(db, call.name)

\* The index keys [name, shard] a write touches in table db.
writtenKeys(db, writes) ==
  {[name |-> w.name, shard |-> w.shard] :
     w \in {writes[k] : k \in {k \in 1..Len(writes) : writes[k].op = "insert"}}}
  \cup {[name |-> c.name, shard |-> c.shard] :
     c \in {c \in db : \E k \in 1..Len(writes) :
                          writes[k].op # "insert" /\ writes[k].id = c.id}}

\* A committed write set invalidates the transaction t.
conflicts(t, keys) ==
  /\ t.pc = "running"
  /\ \E key \in keys :
       /\ key.name = t.range.name
       /\ t.range.shard = Undefined \/ t.range.shard = Some(key.shard)

\* The handler starts (or starts again) on the current snapshot.
starts(p, call, u) ==
  LET r == handle(store, call, u)
  IN  txn' = [txn EXCEPT ![p] = [pc |-> "running", call |-> call, r |-> r,
                                 range |-> readRange(call, u), stale |-> FALSE,
                                 rounded |-> rounds(store, call, r)]]

\* Clients are interchangeable: the next mutation starts on the first idle one.
Begin(p, call, u) ==
  /\ txn[p].pc = "idle"
  /\ \A q \in Procs : txn[q].pc = "idle" => p <= q
  /\ nops < MaxTxns
  /\ starts(p, call, u)
  /\ nops' = nops + 1
  /\ UNCHANGED <<store, nextId, last, prev, added, touched, reader, client, app>>

BeginAdd ==
  \E p \in Procs, name \in Names, cnt \in TxnDeltas, a \in TxnAddArgs, u \in Draws :
    /\ a[1] # Undefined => u = 0
    /\ Begin(p, [NoCall EXCEPT !.op = "add", !.name = name, !.count = cnt,
                               !.shard = a[1], !.shards = a[2]], u)

BeginRebalance ==
  \E p \in Procs, name \in Names, shards \in TxnShardsArgs :
    Begin(p, [NoCall EXCEPT !.op = "rebalance", !.name = name, !.shards = shards], 0)

BeginReset ==
  \E p \in Procs, name \in Names :
    Begin(p, [NoCall EXCEPT !.op = "reset", !.name = name], 0)

\* Variant of validates: the handler's reads are not validated (the function
\* does not run as a transaction).
validatesNothing(t) == TRUE

\* The transaction validates: nothing it read has been written since it started.
validates(t) == ~t.stale

\* Commit: the buffered writes are applied and every other running
\* transaction that read a written key becomes stale.
Commit ==
  \E p \in Procs :
    /\ txn[p].pc = "running"
    /\ validates(txn[p])
    /\ CommitsAs(txn[p].call, txn[p].r, txn[p].rounded)
    /\ LET keys == IF last'.threw THEN {}
                   ELSE writtenKeys(store, txn[p].r.writes)
       IN  txn' = [q \in Procs |->
                     IF q = p THEN Idle
                     ELSE IF conflicts(txn[q], keys)
                          THEN [txn[q] EXCEPT !.stale = TRUE]
                          ELSE txn[q]]
    /\ UNCHANGED <<nops, client, app>>

\* A stale transaction is run again from the start, with a fresh draw.
Retry ==
  \E p \in Procs, u \in Draws :
    /\ txn[p].pc = "running"
    /\ ~validates(txn[p])
    /\ txn[p].call.shard # Undefined => u = 0
    /\ starts(p, [txn[p].call EXCEPT !.tries = @ + 1], u)
    /\ UNCHANGED <<store, nextId, last, prev, added, touched, nops, reader, client, app>>

NextTxn == BeginAdd \/ BeginRebalance \/ BeginReset \/ Commit \/ Retry

SpecTxn == Init /\ [][NextTxn]_vars

---------------------------------------------------------------------------
\* SpecRead: a count query runs while clients add concurrently.  The query is
\* issued, its handler runs (one collect() over the index range of the name,
\* then the sum), and its result is delivered; mutations commit in between.

\* The concurrent adds, as <<shard, shards, count>>: 0.1 on a shard drawn out
\* of 1 (always shard 0), 0.1 on the pinned shard 1.
ReadAddArgs ==
  {<<Undefined, Some(1), Rat(1, 10)>>, <<Some(1), Undefined, Rat(1, 10)>>}

BeginAddBeside ==
  \E p \in Procs, name \in Names, a \in ReadAddArgs, u \in Draws :
    /\ a[1] # Undefined => u = 0
    /\ Begin(p, [NoCall EXCEPT !.op = "add", !.name = name, !.count = a[3],
                               !.shard = a[1], !.shards = a[2]], u)

\* The caller issues count(name).
IssueCount ==
  \E name \in Names :
    /\ reader.pc = "idle"
    /\ reader' = [NoReader EXCEPT !.pc = "called", !.name = name,
                                  !.base = added[name]]
    /\ UNCHANGED <<store, nextId, last, prev, added, touched, nops, txn, client, app>>

\* count.handler runs on the table as committed at this moment.
RunCount ==
  /\ reader.pc = "called"
  /\ reader' = [reader EXCEPT !.pc = "read", !.read = docs(store, reader.name),
                                !.ret = Some(count(store, reader.name))]
  /\ UNCHANGED <<store, nextId, last, prev, added, touched, nops, txn, client, app>>

\* The result reaches the caller.
ReturnCount ==
  /\ reader.pc = "read"
  /\ reader' = [reader EXCEPT !.pc = "returned"]
  /\ Answers([NoCall EXCEPT !.op = "count", !.name = reader.name], reader.ret)
  /\ UNCHANGED <<nops, txn, client, app>>

NextRead ==
  BeginAddBeside \/ Commit \/ Retry \/ IssueCount \/ RunCount \/ ReturnCount

SpecRead == Init /\ [][NextRead]_vars

---------------------------------------------------------------------------
\* SpecClient: one ShardedCounter instance (src/client), constructed with some
\* options, whose caller awaits each call before it makes the next.  add,
\* subtract, inc and dec are asynchronous: each is issued, its mutation runs,
\* and it returns.  SpecOverlap has the caller that does not await.

\* The key that options.shards names, when it names one.
FixedKey == "beans"

\* The options of the constructor: shards for no key or for FixedKey (one
\* shard, or MaxShards), defaultShards omitted or given.
ClientOptions ==
  {[shards |-> sh, defaultShards |-> d] :
     sh \in {<<>>} \cup {[n \in {FixedKey} |-> k] : k \in {1, MaxShards}},
     d \in {Undefined, Some(MaxShards)}}

\* The `count` argument of add and subtract (inc and dec cover the count 1 that
\* an omitted argument stands for).
ClientCounts == {Some(Rat(1, 10))}

\* Variant of shardsForKey: the per-key value is not looked up.
shardsForKeyDefault(options, name) == options.defaultShards

\* ShardedCounter.shardsForKey: options?.shards?.[name] ?? defaultShards
shardsForKey(options, name) ==
  LET defaultShards == options.defaultShards
      explicitShards == IF name \in DOMAIN options.shards
                        THEN Some(options.shards[name]) ELSE Undefined
  IN  IF explicitShards # Undefined THEN explicitShards ELSE defaultShards

\* Variant of stick: the index after the returned shard is recorded.
stickNext(stickyShard, name, shard) == [stickyShard EXCEPT ![name] = Some(shard + 1)]

\* ShardedCounter.add: this.stickyShard[name] = shard
stick(stickyShard, name, shard) == [stickyShard EXCEPT ![name] = Some(shard)]

\* Variant of subtractCount: the count is passed on as it is.
subtractCountSame(cnt) == cnt

\* ShardedCounter.subtract: the count it hands to add, -count
subtractCount(cnt) == Neg(cnt)

\* The table an earlier instance left: FixedKey holds 0.2 on shard 0, the sum
\* of two adds of 0.1.
Served == {[id |-> 1, name |-> FixedKey, shard |-> 0, value |-> Rat(1, 5)]}

\* The instance is made on the empty table or on one that served before.
InitClient ==
  /\ store \in {{}, Served}
  /\ nextId = Cardinality(store) + 1
  /\ last = NoCall
  /\ prev = store
  /\ added = [n \in Names |-> exactSum(docs(store, n))]
  /\ touched = [n \in Names |-> IF docs(store, n) = {} THEN {} ELSE {"add"}]
  /\ nops = 0
  /\ txn = [p \in Procs |-> Idle]
  /\ reader = NoReader
  /\ client \in {[NoClient EXCEPT !.options = o] : o \in ClientOptions}
  /\ app = NoApp

\* ShardedCounter.add(ctx, name, count), called by the method `via` with the
\* argument `arg`, up to its await: the arguments of the mutation are built,
\* this.stickyShard[name] among them, and the mutation is requested.  The call
\* takes the first free slot.
Adds(via, name, arg, cnt) ==
  LET call == [NoCall EXCEPT !.op = "add", !.via = via, !.arg = arg,
                             !.name = name, !.count = cnt,
                             !.shard = client.stickyShard[name],
                             !.shards = shardsForKey(client.options, name),
                             !.nth = client.issued[name] + 1,
                             !.after = Len(client.returned[name]),
                             !.settled = client.first[name] # Undefined]
  IN  \E p \in Procs :
        /\ txn[p].pc = "idle"
        /\ \A q \in 1..(p - 1) : txn[q].pc # "idle"
        /\ txn' = [txn EXCEPT ![p] = [Idle EXCEPT !.pc = "called", !.call = call]]
        /\ client' =
             [client EXCEPT
                !.issued[name] = @ + 1,
                !.overlapped[name] =
                  @ \/ \E q \in Procs : txn[q].pc # "idle" /\ txn[q].call.name = name]
        /\ nops' = nops + 1
        /\ UNCHANGED <<store, nextId, last, prev, added, touched, reader, app>>

\* Every call made so far has returned.
Awaited == \A p \in Procs : txn[p].pc = "idle"

\* counter.add(ctx, name, count = 1)
ClientAdd ==
  \E name \in Names, arg \in ClientCounts :
    /\ nops < MaxOps /\ Awaited
    /\ Adds("add", name, arg, Coalesce(arg, Num(1)))

\* counter.subtract(ctx, name, count = 1)
ClientSubtract ==
  \E name \in Names, arg \in ClientCounts :
    /\ nops < MaxOps /\ Awaited
    /\ Adds("subtract", name, arg, subtractCount(Coalesce(arg, Num(1))))

\* counter.inc(ctx, name)
ClientInc ==
  \E name \in Names :
    /\ nops < MaxOps /\ Awaited
    /\ Adds("inc", name, Undefined, Num(1))

\* counter.dec(ctx, name)
ClientDec ==
  \E name \in Names :
    /\ nops < MaxOps /\ Awaited
    /\ Adds("dec", name, Undefined, Num(-1))

\* ctx.runMutation(this.component.public.add, ...) of a call runs and commits;
\* u is the draw of the component.
AddRuns ==
  \E p \in Procs, u \in Draws :
    LET call == txn[p].call
        r == add(store, call.name, call.count, call.shard, call.shards, u)
    IN  /\ txn[p].pc = "called"
        /\ call.shard # Undefined => u = 0
        /\ Commits(call, r)
        /\ txn' = [txn EXCEPT ![p].pc = "ran", ![p].r = r]
        /\ client' =
             IF last'.threw THEN client
             ELSE [client EXCEPT
                     !.adds[call.name] = @ + 1,
                     !.recent = [via |-> call.via, name |-> call.name,
                                 arg |-> call.arg, total |-> count(store, call.name),
                                 exact |-> sumsExactly(store, call.name),
                                 rounded |-> rounds(store, call, r)],
                     !.earlier = client.recent]
        /\ UNCHANGED <<nops, app>>

\* ShardedCounter.add after its await: the mutation has returned, and
\* this.stickyShard[name] = shard.  A mutation that threw rejects the await,
\* and nothing is recorded.
AddReturns ==
  \E p \in Procs :
    LET call == txn[p].call
        r == txn[p].r
    IN  /\ txn[p].pc = "ran"
        /\ txn' = [txn EXCEPT ![p] = Idle]
        /\ client' =
             IF r.threw THEN client
             ELSE [client EXCEPT
                     !.stickyShard = stick(@, call.name, r.ret[1]),
                     !.first[call.name] = IF call.nth = 1 THEN r.ret ELSE @,
                     !.returned[call.name] = Append(@, r.ret[1])]
        /\ UNCHANGED <<store, nextId, last, prev, added, touched, nops, reader, app>>

\* counter.rebalance(ctx, name)
ClientRebalance ==
  \E name \in Names :
    LET shards == shardsForKey(client.options, name)
    IN  /\ nops < MaxOps /\ Awaited
        /\ Commits([NoCall EXCEPT !.op = "rebalance", !.via = "rebalance",
                                  !.name = name, !.shards = shards],
                   rebalance(store, name, shards))
        /\ client' = [client EXCEPT !.recent = NoMethod, !.earlier = client.recent]
        /\ nops' = nops + 1
        /\ UNCHANGED <<txn, app>>

\* counter.reset(ctx, name)
ClientReset ==
  \E name \in Names :
    /\ nops < MaxOps /\ Awaited
    /\ Commits([NoCall EXCEPT !.op = "reset", !.via = "reset", !.name = name],
               reset(store, name))
    /\ client' = [client EXCEPT !.recent = NoMethod, !.earlier = client.recent]
    /\ nops' = nops + 1
    /\ UNCHANGED <<txn, app>>

\* A query changes nothing, so one that follows another meets the same table.
Queried == last.op \in {"count", "estimateCount"}

\* counter.estimateCount(ctx, name, readFromShards = 1); tape holds the draws
\* of the component's shuffle.
ClientEstimateCount ==
  \E name \in Names, arg \in {Undefined, Some(MaxShards)}, tape \in Tapes :
    LET shards == shardsForKey(client.options, name)
        readFromShards == Some(Coalesce(arg, 1))
    IN  /\ ~Queried /\ Awaited
        /\ Answers([NoCall EXCEPT !.op = "estimateCount", !.via = "estimateCount",
                                  !.name = name, !.shards = shards,
                                  !.reads = readFromShards],
                   estimateCount(store, name, readFromShards, shards, tape))
        /\ UNCHANGED <<nops, txn, reader, client, app>>

NextClient ==
  \/ ClientAdd \/ ClientSubtract \/ ClientInc \/ ClientDec
  \/ AddRuns \/ AddReturns
  \/ ClientRebalance \/ ClientReset \/ ClientEstimateCount

SpecClient == InitClient /\ [][NextClient]_vars

---------------------------------------------------------------------------
\* SpecOverlap: one ShardedCounter instance whose caller does not await: adds
\* for FixedKey are issued while others are in flight, as in
\* Promise.all([counter.add(ctx, key), counter.add(ctx, key)]), and the
\* mutations of the calls in flight commit and return in any order.

InitOverlap ==
  /\ store = {}
  /\ nextId = 1
  /\ last = NoCall
  /\ prev = {}
  /\ added = [n \in Names |-> Zero]
  /\ touched = [n \in Names |-> {}]
  /\ nops = 0
  /\ txn = [p \in Procs |-> Idle]
  /\ reader = NoReader
  /\ client \in {[NoClient EXCEPT !.options = o] :
                   o \in {c \in ClientOptions : /\ FixedKey \in DOMAIN c.shards
                                                /\ c.defaultShards = Undefined}}
  /\ app = NoApp

\* counter.add(ctx, FixedKey, count = 1), not awaited
AddUnawaited ==
  \E arg \in ClientCounts :
    /\ nops < MaxWrites
    /\ Adds("add", FixedKey, arg, Coalesce(arg, Num(1)))

NextOverlap == AddUnawaited \/ AddRuns \/ AddReturns

SpecOverlap == InitOverlap /\ [][NextOverlap]_vars

---------------------------------------------------------------------------
\* SpecTrigger: the table `users` of the example is written through
\* mutationWithTriggers, with counter.trigger("users") registered on it.  A
\* mutation and the trigger it fires are one transaction.

\* new ShardedCounter(components.shardedCounter, {shards: {beans: 10, users: 3}})
exampleOptions ==
  [shards |-> [n \in {"beans", "users"} |-> IF n = "beans" THEN 10 ELSE 3],
   defaultShards |-> Undefined]

\* Variant of trigger: an update is counted like an insert.
triggerCountsUpdates(operation) ==
  IF operation \in {"insert", "update"} THEN Some(Num(1))
  ELSE IF operation = "delete" THEN Some(Num(-1))
  ELSE Undefined

\* ShardedCounter.trigger(name): the count the change adds to the key (inc on
\* an insert, dec on a delete), Undefined when it calls nothing.
trigger(operation) ==
  IF operation = "insert" THEN Some(Num(1))
  ELSE IF operation = "delete" THEN Some(Num(-1))
  ELSE Undefined

\* The trigger is registered on a table that holds some documents already,
\* for a key that has been counted up to some value already.
InitTrigger ==
  /\ store \in {{}} \cup {tableOf("users", [i \in 0..2 |-> IF i = s THEN Some(Num(2))
                                                              ELSE Undefined]) :
                          s \in {0, 2}}
  /\ nextId = Cardinality(store) + 1
  /\ last = NoCall
  /\ prev = {}
  /\ added = [n \in Names |-> Zero]
  /\ touched = [n \in Names |-> {}]
  /\ nops = 0
  /\ txn = [p \in Procs |-> Idle]
  /\ reader = NoReader
  /\ client = NoClient
  /\ \E n \in 0..1 :
       app = [NoApp EXCEPT !.users = {[_id |-> i, _creationTime |-> i,
                                        name |-> "Alice"] : i \in 1..n},
                           !.clock = n,
                           !.installed = [docs |-> n, total |-> count(store, "users")]]

\* A mutation of an example that reaches the counter of `call.name` through
\* its ShardedCounter, as one transaction: r is what the component's add did
\* (nothing when the mutation does not reach the counter), threw whether the
\* mutation threw outside the counter, written the tables of the example when
\* the transaction commits and kept when it does not.
TransactsWith(call, r, st, threw, written, kept) ==
  LET failed == threw \/ r.threw \/ ~st.ok
  IN  /\ store' = IF failed THEN store ELSE st.db
      /\ nextId' = IF failed THEN nextId ELSE st.nid
      /\ last' = [call EXCEPT !.ret = r.ret, !.threw = failed]
      /\ prev' = store
      /\ app' = IF failed THEN kept
                ELSE [written EXCEPT
                        !.stickyShard = IF r.ret = Undefined THEN @
                                        ELSE stick(@, call.name, r.ret[1])]
      /\ nops' = nops + 1
      /\ UNCHANGED <<added, touched, txn, reader, client>>

Transacts(call, r, threw, written, kept) ==
  TransactsWith(call, r,
                applyWrites([ok |-> TRUE, db |-> store, nid |-> nextId], r.writes),
                threw, written, kept)

\* wrapDB: the write `operation` reaches the table as `users`, and the trigger
\* registered on the table runs in the same transaction; what it calls is
\* ShardedCounter.add(ctx, "users", count) with the draw u of the component.
Triggered(operation, users, u) ==
  LET cnt == trigger(operation)
      call == [NoCall EXCEPT !.op = IF cnt = Undefined THEN "none" ELSE "add",
                             !.via = operation, !.name = "users",
                             !.count = Coalesce(cnt, Zero),
                             !.shard = app.stickyShard["users"],
                             !.shards = shardsForKey(exampleOptions, "users")]
  IN  /\ call.shard # Undefined \/ cnt = Undefined => u = 0
      /\ Transacts(call,
                   IF cnt = Undefined THEN Returned(Undefined, <<>>)
                   ELSE add(store, "users", cnt[1], call.shard, call.shards, u),
                   FALSE,
                   [app EXCEPT !.users = users,
                               !.clock = IF operation = "insert" THEN @ + 1 ELSE @],
                   app)

\* insertUserWithTrigger: ctx.db.insert("users", {name: "Alice"})
InsertUserWithTrigger ==
  \E u \in Draws :
    /\ nops < MaxWrites
    /\ Triggered("insert",
                 app.users \cup {[_id |-> app.clock + 1, _creationTime |-> app.clock + 1,
                                  name |-> "Alice"]}, u)

\* A wrapped mutation patches a document of the table.
UpdateUserWithTrigger ==
  \E doc \in app.users, name \in {"Alice", "Bob"} :
    /\ nops < MaxWrites /\ doc.name # name
    /\ Triggered("update",
                 (app.users \ {doc}) \cup {[doc EXCEPT !.name = name]}, 0)

\* A wrapped mutation deletes a document of the table.
DeleteUserWithTrigger ==
  \E doc \in app.users, u \in Draws :
    /\ nops < MaxWrites
    /\ Triggered("delete", app.users \ {doc}, u)

NextTrigger ==
  \/ InsertUserWithTrigger
  \/ UpdateUserWithTrigger
  \/ DeleteUserWithTrigger

SpecTrigger == InitTrigger /\ [][NextTrigger]_vars

---------------------------------------------------------------------------
\* SpecToggle: the checkbox example.  A bit per box, BOXES_PER_DOCUMENT boxes
\* per document of the table `checkboxes`, one counter for the checked ones.

NUM_BOXES == 1000000
BOXES_PER_DOCUMENT == 4000
NUM_DOCUMENTS == NUM_BOXES \div BOXES_PER_DOCUMENT

\* new ShardedCounter(components.checkboxCounter, {shards: {checkboxes: 100}})
checkboxOptions ==
  [shards |-> [n \in {"checkboxes"} |-> 100], defaultShards |-> Undefined]

\* new Uint8Array(length): `length` bytes, all 0 (byte i of JavaScript is
\* element i + 1 here).
RECURSIVE Uint8Array(_)
Uint8Array(length) ==
  IF length = 0 THEN <<>>
  ELSE LET half == Uint8Array(length \div 2)
       IN  IF length % 2 = 0 THEN half \o half ELSE Append(half \o half, 0)

\* 1 << bit
ShiftLeft(bit) == 2 ^ bit

\* shiftedBit & byte, for a shiftedBit that has one bit set
BitAnd(shiftedBit, byte) ==
  IF (byte \div shiftedBit) % 2 = 1 THEN shiftedBit ELSE 0

\* shiftedBit ^ byte, for a shiftedBit that has one bit set
BitXor(shiftedBit, byte) ==
  IF BitAnd(shiftedBit, byte) # 0 THEN byte - shiftedBit ELSE byte + shiftedBit

\* isChecked(view, arrayIdx)
isChecked(view, arrayIdx) ==
  LET bit == arrayIdx % 8
      uintIdx == arrayIdx \div 8
      byte == view[uintIdx + 1]
      shiftedBit == ShiftLeft(bit)
  IN  BitAnd(shiftedBit, byte) # 0

\* Variant of shiftBit: the bit is flipped whatever state it is in.
shiftBitAlways(view, arrayIdx, checked) ==
  LET bit == arrayIdx % 8
      uintIdx == arrayIdx \div 8
      byte == view[uintIdx + 1]
      shiftedBit == ShiftLeft(bit)
  IN  Some([view EXCEPT ![uintIdx + 1] = BitXor(shiftedBit, byte)])

\* shiftBit(view, arrayIdx, checked): Undefined when the bit is in the state
\* asked for, else the view with the bit flipped.
shiftBit(view, arrayIdx, checked) ==
  LET bit == arrayIdx % 8
      uintIdx == arrayIdx \div 8
      byte == view[uintIdx + 1]
      shiftedBit == ShiftLeft(bit)
      isCurrentlyChecked == isChecked(view, arrayIdx)
  IN  IF isCurrentlyChecked = checked THEN Undefined
      ELSE Some([view EXCEPT ![uintIdx + 1] = BitXor(shiftedBit, byte)])

\* ctx.db.query("checkboxes").withIndex("idx", q => q.eq("idx", documentIdx)).first()
firstCheckbox(checkboxes, documentIdx) ==
  LET found == {c \in checkboxes : c.idx = documentIdx}
  IN  IF found = {} THEN Undefined
      ELSE Some(CHOOSE c \in found : \A d \in found : c._id <= d._id)

\* toggleHandler, up to the counter: whether it threw, the table it leaves and
\* the count it adds to the key (Undefined when it calls neither inc nor dec).
toggleHandler(checkboxes, documentIdx, arrayIdx, checked) ==
  IF documentIdx < 0 \/ documentIdx >= NUM_DOCUMENTS
  THEN [threw |-> TRUE, checkboxes |-> checkboxes, cnt |-> Undefined]
  ELSE IF arrayIdx < 0 \/ arrayIdx >= BOXES_PER_DOCUMENT
  THEN [threw |-> TRUE, checkboxes |-> checkboxes, cnt |-> Undefined]
  ELSE
    LET inserted ==
          IF firstCheckbox(checkboxes, documentIdx) # Undefined THEN checkboxes
          ELSE checkboxes \cup {[_id |-> Cardinality(checkboxes) + 1,
                                  idx |-> documentIdx,
                                  boxes |-> Uint8Array(BOXES_PER_DOCUMENT \div 8)]}
        checkbox == firstCheckbox(inserted, documentIdx)[1]
        bytes == checkbox.boxes
        newBytes == shiftBit(bytes, arrayIdx, checked)
    IN  IF newBytes # Undefined
        THEN [threw |-> FALSE,
              checkboxes |-> (inserted \ {checkbox})
                               \cup {[checkbox EXCEPT !.boxes = newBytes[1]]},
              cnt |-> IF checked THEN Some(Num(1)) ELSE Some(Num(-1))]
        ELSE [threw |-> FALSE, checkboxes |-> inserted, cnt |-> Undefined]

\* toggle({documentIdx, arrayIdx, checked}), with arguments at the ends of
\* both ranges and next to them, and a box in the middle of a byte; u is the
\* draw of the component when the handler reaches the counter.
CallToggle ==
  \E documentIdx \in {-1, 0, NUM_DOCUMENTS - 1, NUM_DOCUMENTS},
     arrayIdx \in {-1, 9, BOXES_PER_DOCUMENT - 1, BOXES_PER_DOCUMENT},
     checked \in BOOLEAN, u \in Draws :
    LET t == toggleHandler(app.checkboxes, documentIdx, arrayIdx, checked)
        call == [NoCall EXCEPT !.op = "toggle", !.via = "toggle",
                               !.name = "checkboxes",
                               !.arg = <<documentIdx, arrayIdx, checked>>,
                               !.count = Coalesce(t.cnt, Zero),
                               !.shard = app.stickyShard["checkboxes"],
                               !.shards = shardsForKey(checkboxOptions, "checkboxes")]
    IN  /\ nops < MaxWrites
        /\ call.shard # Undefined \/ t.cnt = Undefined => u = 0
        /\ Transacts(call,
                     IF t.cnt = Undefined THEN Returned(Undefined, <<>>)
                     ELSE add(store, "checkboxes", t.cnt[1], call.shard, call.shards, u),
                     t.threw,
                     [app EXCEPT !.checkboxes = t.checkboxes,
                                 !.checkboxesBefore = app.checkboxes],
                     [app EXCEPT !.checkboxesBefore = app.checkboxes])

SpecToggle == Init /\ [][CallToggle]_vars

---------------------------------------------------------------------------
\* SpecBackfill: the backfill protocol of the example.  `users` holds documents
\* that were never counted, the backfillCursor document has been created, and
\* backfillUsers runs its pages while insertUserDuringBackfill inserts users;
\* every mutation is a transaction.

numItems == 3

\* Where a document stands in the default order of paginate: by
\* _creationTime, then by _id.
Position(doc) == <<doc._creationTime, doc._id>>
After(a, b) == a[1] > b[1] \/ (a[1] = b[1] /\ a[2] > b[2])

\* The documents of a table in that order.
RECURSIVE inOrder(_)
inOrder(table) ==
  IF table = {} THEN <<>>
  ELSE LET doc == CHOOSE d \in table :
                    \A e \in table \ {d} : After(Position(e), Position(d))
       IN  <<doc>> \o inOrder(table \ {doc})

\* ctx.db.query("users").paginate({cursor, numItems}): the next numItems
\* documents after the cursor.  isDone is reported when the end of the table
\* was met: with a page that is not full, and, with a full page that ends at
\* the end of the table, either then or with the empty page that follows
\* (sooner).
paginate(table, cursor, sooner) ==
  LET rest == inOrder({d \in table :
                         cursor = Undefined \/ After(Position(d), cursor[1])})
      page == SubSeq(rest, 1, Min(numItems, Len(rest)))
  IN  [page |-> page,
       isDone |-> Len(rest) < numItems \/ (Len(rest) = numItems /\ sooner),
       continueCursor |-> IF page = <<>> THEN cursor
                          ELSE Some(Position(page[Len(page)]))]

\* Variant of processed: the user is counted whatever the cursor says (the
\* body of insertUserAfterBackfill).
processedAlways(userDoc, backfillCursor) == TRUE

\* insertUserDuringBackfill: the condition under which the insert counts its
\* user, the backfill being behind it or over.
processed(userDoc, backfillCursor) ==
  \/ backfillCursor = Undefined
  \/ backfillCursor[1].isDone
  \/ userDoc._creationTime < backfillCursor[1].creationTime
  \/ /\ userDoc._creationTime = backfillCursor[1].creationTime
     /\ userDoc._id <= backfillCursor[1].id

\* counter.add(ctx, "users") by the instance of the example, on the state st
\* of the transaction: the counters table, the next id and the stickyShard.
counterAddWrites(st, r, w) ==
  [st EXCEPT !.db = w.db, !.nid = w.nid,
             !.stickyShard = stick(@, "users", r.ret[1])]

counterAddRuns(st, r) ==
  counterAddWrites(st, r,
                   applyWrites([ok |-> TRUE, db |-> st.db, nid |-> st.nid], r.writes))

counterAdd(st, u) ==
  counterAddRuns(st, add(st.db, "users", Num(1), st.stickyShard["users"],
                         shardsForKey(exampleOptions, "users"), u))

\* backfillUsersBatch, the loop over the page: each user is counted and the
\* backfillCursor document patched to it.
RECURSIVE forPage(_, _, _, _)
forPage(st, page, isDone, u) ==
  IF page = <<>> THEN st
  ELSE forPage([counterAdd(st, u) EXCEPT
                  !.backfillCursor = Some([isDone |-> isDone,
                                           creationTime |-> Head(page)._creationTime,
                                           id |-> Head(page)._id]),
                  !.paged = Append(@, Head(page)._id)],
               Tail(page), isDone, 0)

\* The state a transaction of the example starts from.
atStart ==
  [db |-> store, nid |-> nextId, stickyShard |-> app.stickyShard,
   backfillCursor |-> app.backfillCursor, paged |-> app.paged]

\* backfillUsersBatch.handler({cursor})
backfillUsersPage(st, p, u) ==
  [isDone |-> p.isDone, continueCursor |-> p.continueCursor,
   st |-> forPage(st, p.page, p.isDone, u)]

backfillUsersBatch(st, users, cursor, sooner, u) ==
  IF st.backfillCursor = Undefined \/ st.backfillCursor[1].isDone
  THEN [isDone |-> TRUE, continueCursor |-> Undefined, st |-> st]
  ELSE backfillUsersPage(st, paginate(users, cursor, sooner), u)

\* The tables when the backfill starts: n users inserted by
\* insertUserBeforeBackfill (their _id are the even numbers; the users inserted
\* later get odd ones, so that an _id may fall on either side of another), the
\* backfillCursor document as the walkthrough creates it ("" is the id 0
\* here), and backfillUsers called.
InitBackfill ==
  /\ store = {}
  /\ nextId = 1
  /\ last = NoCall
  /\ prev = {}
  /\ added = [n \in Names |-> Zero]
  /\ touched = [n \in Names |-> {}]
  /\ nops = 0
  /\ txn = [p \in Procs |-> Idle]
  /\ reader = NoReader
  /\ client = NoClient
  /\ \E n \in 0..MaxUsers :
       app = [NoApp EXCEPT
                !.users = {[_id |-> 2 * i, _creationTime |-> i, name |-> "Alice"] :
                             i \in 1..n},
                !.clock = n,
                !.backfillCursor = Some([creationTime |-> 0, id |-> 0,
                                         isDone |-> FALSE]),
                !.backfill = [pc |-> "running", cursor |-> Undefined,
                              result |-> Undefined]]

\* insertUserDuringBackfill: the document gets an _id no document has and the
\* time of the clock, which is not behind the latest _creationTime by more
\* than one tick.
InsertsUser(userDoc, counts, st) ==
  /\ store' = st.db
  /\ nextId' = st.nid
  /\ last' = [NoCall EXCEPT !.op = "insertUserDuringBackfill",
                            !.via = IF counts THEN "add" ELSE "none",
                            !.name = "users", !.arg = Position(userDoc)]
  /\ prev' = store
  /\ app' = [app EXCEPT
               !.users = @ \cup {userDoc},
               !.clock = Max(@, userDoc._creationTime),
               !.stickyShard = st.stickyShard,
               !.live = IF counts THEN Append(@, userDoc._id) ELSE @,
               !.late = IF app.backfill.pc = "done" THEN @ \cup {userDoc._id} ELSE @]
  /\ nops' = nops + 1
  /\ UNCHANGED <<added, touched, txn, reader, client>>

InsertUserDuringBackfill ==
  \E id \in {2 * i - 1 : i \in 1..(MaxUsers + 1)},
     time \in {app.clock - 1, app.clock, app.clock + 1}, u \in Draws :
    LET userDoc == [_id |-> id, _creationTime |-> time, name |-> "Alice"]
        counts == processed(userDoc, app.backfillCursor)
    IN  /\ nops < MaxOps
        /\ time >= 1
        /\ \A d \in app.users : d._id # id
        /\ app.stickyShard["users"] # Undefined \/ ~counts => u = 0
        /\ InsertsUser(userDoc, counts,
                       IF counts THEN counterAdd(atStart, u) ELSE atStart)

Backfills(b, wrote) ==
  /\ store' = b.st.db
  /\ nextId' = b.st.nid
  /\ last' = [NoCall EXCEPT !.op = "backfillUsersBatch", !.name = "users",
                            !.arg = app.backfill.cursor,
                            !.ret = Some([isDone |-> b.isDone,
                                          continueCursor |-> b.continueCursor]),
                            !.wrote = wrote]
  /\ prev' = store
  /\ app' = [app EXCEPT
               !.stickyShard = b.st.stickyShard,
               !.backfillCursor = b.st.backfillCursor,
               !.paged = b.st.paged,
               !.backfill.result = Some([isDone |-> b.isDone,
                                         continueCursor |-> b.continueCursor])]
  /\ UNCHANGED <<added, touched, nops, txn, reader, client>>

\* backfillUsers, the mutation it awaits: backfillUsersBatch runs with the
\* cursor of the action and commits; what it returns waits for the action.
BackfillUsersBatch ==
  \E sooner \in BOOLEAN, u \in Draws :
    LET p == paginate(app.users, app.backfill.cursor, sooner)
    IN  /\ app.backfill.pc = "running" /\ app.backfill.result = Undefined
        /\ sooner => Len(p.page) = numItems /\ p.isDone
        /\ app.stickyShard["users"] # Undefined \/ p.page = <<>> => u = 0
        /\ Backfills(backfillUsersBatch(atStart, app.users, app.backfill.cursor,
                                        sooner, u),
                     Len(p.page))

\* backfillUsers, resuming after the await: it stops when isDone came back and
\* else goes on from continueCursor, with the next pass of its loop.
BackfillUsers ==
  /\ app.backfill.pc = "running" /\ app.backfill.result # Undefined
  /\ app' = [app EXCEPT
               !.backfill = IF app.backfill.result[1].isDone
                            THEN [@ EXCEPT !.pc = "done", !.result = Undefined]
                            ELSE [@ EXCEPT
                                    !.cursor = app.backfill.result[1].continueCursor,
                                    !.result = Undefined]]
  /\ UNCHANGED <<store, nextId, last, prev, added, touched, nops, txn, reader,
                 client>>

NextBackfill ==
  \/ InsertUserDuringBackfill
  \/ BackfillUsersBatch
  \/ BackfillUsers

SpecBackfill == InitBackfill /\ [][NextBackfill]_vars

---------------------------------------------------------------------------
\* SpecNested: the names are composite keys.  The schema stores any value as a
\* name (schema.ts:6) and the component version whose `add` takes
\* `name: v.any()` looks a name up by equality of the whole value.  The
\* application (example/convex/nested.ts) counts under the keys
\* [user, "follows"] and [user, "followers"] through the client of
\* src/client/index.ts; a one-component key [user], a prefix of those, is
\* added to directly.

\* The ids of the documents of `users` that the keys are made of.
NestedUsers == {"u1", "u2"}

\* The keys of nestedCounter: ShardedCounter<[Id<"users">, "follows" | "followers"]>
NestedNames == {<<user, kind>> : user \in NestedUsers, kind \in {"follows", "followers"}}

\* The names of SpecNested: the keys of nestedCounter and a prefix of two of
\* them.
AnyNames == NestedNames \cup {<<"u1">>}

\* new ShardedCounter(components.nestedCounter, { defaultShards: 3 })
nestedOptions == [shards |-> <<>>, defaultShards |-> Some(3)]

\* add.handler of the component version with `name: v.any()`: the shard is
\* always drawn, Math.floor(Math.random() * (args.shards ?? DEFAULT_SHARD_COUNT)).
\* ret is the shard drawn, which this version does not return (returns: v.null()).
addAny(db, name, cnt, shards, u) == addTo(db, name, cnt, selectShard(Undefined, shards, u))

\* ShardedCounter.inc of src/client/index.ts, run inside a mutation on the
\* table db: add(ctx, name, 1), which is
\* runMutation(component.public.add, {name, count, shards: shardsForKey(name)}).
inc(db, nid, name, u) ==
  applyWrites([ok |-> ~addAny(db, name, Num(1), shardsForKey(nestedOptions, name), u).threw,
               db |-> db, nid |-> nid],
              addAny(db, name, Num(1), shardsForKey(nestedOptions, name), u).writes)

\* The add that inc(ctx, name) runs on the table db rounds the sum it stores.
incRounds(db, name, u) ==
  rounds(db, [NoCall EXCEPT !.op = "add", !.name = name, !.count = Num(1)],
         addAny(db, name, Num(1), shardsForKey(nestedOptions, name), u))

\* addFollower.handler: inc of [followee, "followers"], then inc of
\* [follower, "follows"] on the table the first left.
addFollower(db, nid, follower, followee, u1, u2) ==
  IF ~inc(db, nid, <<followee, "followers">>, u1).ok
  THEN inc(db, nid, <<followee, "followers">>, u1)
  ELSE inc(inc(db, nid, <<followee, "followers">>, u1).db,
           inc(db, nid, <<followee, "followers">>, u1).nid,
           <<follower, "follows">>, u2)

InitNested ==
  /\ store = {}
  /\ nextId = 1
  /\ last = NoCall
  /\ prev = {}
  /\ added = [n \in AnyNames |-> Zero]
  /\ touched = [n \in AnyNames |-> {}]
  /\ nops = 0
  /\ txn = [p \in Procs |-> Idle]
  /\ reader = NoReader
  /\ client = NoClient
  /\ app = NoApp

\* component.public.add of the `name: v.any()` version is called with a
\* composite name: for a key of nestedCounter by the client's
\* add(ctx, name, count), with shards: shardsForKey(name); for the prefix
\* directly, without `shards`.
CallAddAny ==
  \E name \in AnyNames, cnt \in Deltas, u \in Draws :
  \E shards \in {IF name \in NestedNames THEN shardsForKey(nestedOptions, name)
                 ELSE Undefined} :
    /\ nops < MaxOps
    /\ \E call \in {[NoCall EXCEPT !.op = "add", !.name = name, !.count = cnt,
                                   !.shards = shards]},
          r \in {addAny(store, name, cnt, shards, u)} :
         CommitsAs(call, [r EXCEPT !.ret = Undefined], rounds(store, call, r))
    /\ nops' = nops + 1
    /\ UNCHANGED <<txn, client, app>>

\* The mutation addFollower of nested.ts: its two incs commit together.
AddFollower ==
  \E follower \in NestedUsers, followee \in NestedUsers, u1 \in Draws, u2 \in Draws :
    /\ nops < MaxOps
    /\ \E st \in {addFollower(store, nextId, follower, followee, u1, u2)} :
         /\ st.ok
         /\ store' = st.db
         /\ nextId' = st.nid
    /\ last' = [NoCall EXCEPT !.op = "addFollower", !.arg = <<follower, followee>>]
    /\ prev' = store
    /\ added' = [added EXCEPT ![<<followee, "followers">>] = ExactPlus(@, Num(1)),
                              ![<<follower, "follows">>] = ExactPlus(@, Num(1))]
    /\ touched' =
         [touched EXCEPT
            ![<<followee, "followers">>] =
              @ \cup {"add"}
                \cup (IF incRounds(store, <<followee, "followers">>, u1)
                      THEN {"rounded"} ELSE {}),
            ![<<follower, "follows">>] =
              @ \cup {"add"}
                \cup (IF incRounds(inc(store, nextId, <<followee, "followers">>, u1).db,
                                   <<follower, "follows">>, u2)
                      THEN {"rounded"} ELSE {})]
    /\ nops' = nops + 1
    /\ UNCHANGED <<txn, reader, client, app>>

NextNested == CallAddAny \/ AddFollower

SpecNested == InitNested /\ [][NextNested]_vars

---------------------------------------------------------------------------
\* Properties.

\* The shard count a call resolves its `shards` argument to.
shardCountOf(call) == Coalesce(call.shards, DEFAULT_SHARD_COUNT)
\* Only adds have been committed on name n.
pure(n) == touched[n] \subseteq {"add", "rounded"}
\* No add on name n has rounded the sum it stored.
unrounded(n) == "rounded" \notin touched[n]
\* No mutation is in flight.
Quiet == \A p \in Procs : txn[p].pc = "idle"

\* C1 as claimed (Spec). Additivity: while only adds have been made to a
\* name, starting from the empty table, count(name) is the sum d1 + ... + dk
\* of the deltas added so far, both as computed from the table and as
\* returned by a count call.
AdditivityOfSum ==
  /\ \A n \in Names : pure(n) => count(store, n) = added[n]
  /\ last.op = "count" /\ pure(last.name) => last.ret = Some(added[last.name])

\* C1 as amended (Spec). Additivity up to rounding: while only adds have been
\* made to a name and none of their additions has rounded, the values of its
\* shards add up to d1 + ... + dk, and count(name) is that sum whenever its
\* own additions do not round either.
Additivity ==
  /\ \A n \in Names :
       pure(n) /\ unrounded(n) =>
         /\ exactSum(docs(store, n)) = added[n]
         /\ sumsExactly(store, n) => count(store, n) = added[n]
  /\ (/\ last.op = "count" /\ pure(last.name) /\ unrounded(last.name)
      /\ sumsExactly(store, last.name)) =>
       last.ret = Some(added[last.name])

\* Two adds of the fraction 0.1 landed on two shards, and count was then
\* called: it returned 0.2.
AdditivityWitness ==
  /\ last.op = "count"
  /\ pure(last.name) /\ unrounded(last.name) /\ sumsExactly(store, last.name)
  /\ Cardinality(docs(store, last.name)) = 2
  /\ added[last.name] = Rat(1, 5)
  /\ last.ret = Some(Rat(1, 5))

\* C2 as claimed (SpecTxn). No lost update: once every concurrently issued
\* add has committed, count(name) is the sum of the deltas of the committed
\* adds.
NoLostUpdateOfSum ==
  Quiet => \A n \in Names : pure(n) => count(store, n) = added[n]

\* C2 as amended (SpecTxn). No lost update, up to rounding: once every
\* concurrently issued add has committed, and none of their additions has
\* rounded, the values of the shards of the name add up to the sum of the
\* deltas of the committed adds, and count(name) is that sum whenever its own
\* additions do not round.
NoLostUpdate ==
  Quiet =>
    \A n \in Names :
      pure(n) /\ unrounded(n) =>
        /\ exactSum(docs(store, n)) = added[n]
        /\ sumsExactly(store, n) => count(store, n) = added[n]

\* Two adds hit the same existing shard concurrently; the second to commit
\* was run again and both deltas are in the one record.
NoLostUpdateWitness ==
  /\ Quiet
  /\ last.op = "add" /\ last.tries = 2 /\ ~last.threw
  /\ pure(last.name)
  /\ \E c \in docs(prev, last.name) : c.shard = last.ret[1]
  /\ unrounded(last.name)
  /\ Cardinality(docs(store, last.name)) = 1
  /\ added[last.name] = Rat(1, 5)
  /\ count(store, last.name) = Rat(1, 5)

\* C3 as claimed (SpecRebalance). Rebalance preserves the value: count(name)
\* right after rebalance(name, S') equals count(name) right before it.
RebalancePreservesTotal ==
  last.op = "rebalance" /\ ~last.threw =>
    count(store, last.name) = count(prev, last.name)

\* No pass of the loop `while (Math.abs(remainder) > 0)` rounds
\* `remainder -= nextExtra`, from the running remainder rem.
RECURSIVE decrementsExactly(_)
decrementsExactly(rem) ==
  \/ ~Less(Zero, AbsOf(rem))
  \/ /\ Minus(rem, nextExtra(rem)) = ExactMinus(rem, nextExtra(rem))
     /\ decrementsExactly(Minus(rem, nextExtra(rem)))

\* No step of the remainder-distributing rebalance of the total cnt onto
\* shardCount shards rounds: the product baseCount * shardCount, the remainder,
\* its decrements and the sums baseCount + extra; and every extra goes to a
\* shard.
distributesExactly(cnt, shardCount) ==
  /\ Times(baseCount(cnt, shardCount), Num(shardCount))
       = ExactTimes(baseCount(cnt, shardCount), Num(shardCount))
  /\ remainderOf(cnt, shardCount)
       = ExactMinus(cnt, Times(baseCount(cnt, shardCount), Num(shardCount)))
  /\ extraCounts(remainderOf(cnt, shardCount)) # Undefined
  /\ decrementsExactly(remainderOf(cnt, shardCount))
  /\ \A extras \in {extraCounts(remainderOf(cnt, shardCount))[1]} :
       /\ Len(extras) <= shardCount
       /\ \A i \in 1..Len(extras) :
            Plus(baseCount(cnt, shardCount), extras[i])
              = ExactPlus(baseCount(cnt, shardCount), extras[i])

\* The values of the records of the rebalanced name add up to the total
\* before the call, and count returns that total when its own additions do
\* not round.
keepsCount ==
  /\ exactSum(docs(store, last.name)) = count(prev, last.name)
  /\ sumsExactly(store, last.name) =>
       count(store, last.name) = count(prev, last.name)

\* C3 as amended (SpecRebalance). Rebalance preserves the value up to
\* rounding: from a total T spread over any records of the name, summed
\* without rounding, the values of the shards add up to T after
\* rebalance(name, S') when no step of the handler rounds (the division T / S'
\* of the even rebalance; the product, the remainder, its decrements and the
\* sums of the remainder-distributing one), and count(name) equals T whenever
\* its own additions do not round.
RebalancePreservesCount ==
  /\ (/\ last.op = "rebalance" /\ ~last.threw
      /\ sumsExactly(prev, last.name)
      /\ divides(count(prev, last.name), shardCountOf(last))) => keepsCount
  /\ (/\ last.op = "rebalanceRemainder" /\ ~last.threw
      /\ sumsExactly(prev, last.name)
      /\ distributesExactly(count(prev, last.name), shardCountOf(last))) =>
       keepsCount

\* A rebalance of a non-zero total that several adds had spread over at least
\* two shards, onto fewer shards than there were records: a record was
\* deleted, its value went to the shards that stay, and no operation rounded.
RebalancePreservesCountWitness ==
  /\ last.op = "rebalance" /\ ~last.threw
  /\ sumsExactly(prev, last.name)
  /\ divides(count(prev, last.name), shardCountOf(last))
  /\ sumsExactly(store, last.name)
  /\ count(prev, last.name) # Zero
  /\ Cardinality({c \in docs(prev, last.name) : c.value # Zero}) >= 2
  /\ shardCountOf(last) < Cardinality(docs(prev, last.name))
  /\ \E c \in docs(prev, last.name) : c.shard >= shardCountOf(last) /\ c.value # Zero

\* C4 (Spec). After rebalance(name, S') the records of name are exactly one
\* at each index 0 .. S'-1 and none at any other index.
RebalanceShape ==
  last.op = "rebalance" /\ ~last.threw =>
    /\ \A i \in 0..(shardCountOf(last) - 1) :
         Cardinality(byShard(store, last.name, i)) = 1
    /\ \A c \in docs(store, last.name) : c.shard \in 0..(shardCountOf(last) - 1)

\* A rebalance that had to delete a shard at index S' and to insert a missing
\* shard below it.
RebalanceShapeWitness ==
  /\ last.op = "rebalance" /\ ~last.threw
  /\ \E c \in docs(prev, last.name) : c.shard = shardCountOf(last)
  /\ \E i \in 0..(shardCountOf(last) - 1) : byShard(prev, last.name, i) = {}

\* The records estimateCount reads for the sample `shards`, in the order it
\* reads them.
RECURSIVE readOf(_, _, _)
readOf(db, name, shards) ==
  IF shards = <<>> THEN <<>>
  ELSE (IF byShard(db, name, Head(shards)) = {} THEN <<>>
        ELSE <<CHOOSE c \in byShard(db, name, Head(shards)) : TRUE>>)
       \o readOf(db, name, Tail(shards))

\* The arithmetic of estimateCount on the sample `shards` does not round: the
\* additions to readCount, the product with shardCount, the division by
\* readFromShards.
estimatesExactly(db, name, shards, shardCount, readFromShards) ==
  \A counters \in {readOf(db, name, shards)} :
    /\ addsExactly(counters, Zero)
    /\ \A readCount \in {reduce(counters, Zero)} :
         /\ Times(readCount, Num(shardCount))
              = ExactTimes(readCount, Num(shardCount))
         /\ divides(Times(readCount, Num(shardCount)), readFromShards)

\* C5 as claimed (Spec). Right after rebalance(name) with shard count S,
\* estimateCount with the same S and any readFromShards k in 1..S returns
\* count(name), whichever shards the shuffle selects.
EstimateIsCountAfterRebalance ==
  last.op = "rebalance" /\ ~last.threw =>
    LET exact == Some(count(store, last.name))
    IN  \A k \in 1..shardCountOf(last), tape \in Tapes :
          estimateCount(store, last.name, Some(k), last.shards, tape) = exact

\* C5 as amended (Spec). Right after rebalance(name) with shard count S,
\* estimateCount with the same S and any readFromShards k in 1..S returns
\* count(name), whichever shards the shuffle selects, whenever neither the
\* arithmetic of the estimate nor the additions of count round.
EstimateAfterRebalance ==
  last.op = "rebalance" /\ ~last.threw /\ sumsExactly(store, last.name) =>
    \A exact \in {Some(count(store, last.name))} :
      \A k \in 1..shardCountOf(last), tape \in Tapes :
        estimatesExactly(store, last.name, sample(shardCountOf(last), k, tape),
                         shardCountOf(last), k) =>
          estimateCount(store, last.name, Some(k), last.shards, tape) = exact

\* A rebalance of a non-zero total onto the default 16 shards, after which
\* count does not round and the estimate from three shards does not either.
EstimateAfterRebalanceWitness ==
  /\ last.op = "rebalance" /\ ~last.threw
  /\ last.shards = Undefined
  /\ count(store, last.name) # Zero
  /\ sumsExactly(store, last.name)
  /\ estimatesExactly(store, last.name, <<0, 1, 2>>, DEFAULT_SHARD_COUNT, 3)

\* C6 (Spec). An add with a pinned shard i returns i and changes the record
\* (name, i) only: its value grows by the delta (or is created with it), and
\* every other record is as before, whatever `shards` is.
ShardPinning ==
  last.op = "add" /\ last.shard # Undefined /\ ~last.threw =>
    LET i == last.shard[1]
        old == byShard(prev, last.name, i)
        base == IF old = {} THEN Zero ELSE (CHOOSE c \in old : TRUE).value
    IN  /\ last.ret = last.shard
        /\ \E c \in store :
             /\ byShard(store, last.name, i) = {c}
             /\ c.value = Plus(base, last.count)
        /\ store \ byShard(store, last.name, i) = prev \ old

\* An add pinned to an index outside the range of its `shards` argument, on a
\* name that already had a record at another index.
ShardPinningWitness ==
  /\ last.op = "add" /\ ~last.threw
  /\ last.shard # Undefined /\ last.shards # Undefined
  /\ last.shard[1] >= last.shards[1]
  /\ last.count # Zero
  /\ \E c \in docs(prev, last.name) : c.shard # last.shard[1] /\ c.value # Zero

\* C7 (Spec). After reset(name) no record of name remains and count(name) is
\* 0; an add of d to a name emptied by reset makes count(name) equal d.
ResetClears ==
  /\ last.op = "reset" /\ ~last.threw =>
       docs(store, last.name) = {} /\ count(store, last.name) = Zero
  /\ (/\ last.op = "add" /\ ~last.threw
      /\ "reset" \in touched[last.name]
      /\ docs(prev, last.name) = {}) =>
       count(store, last.name) = last.count

\* A reset of a name that held a non-zero value at an index above 0.
ResetClearsWitness ==
  /\ last.op = "reset" /\ ~last.threw
  /\ \E c \in docs(prev, last.name) : c.shard > 0 /\ c.value # Zero

\* The records and the count of name b are as before the last call.
untouched(b) ==
  /\ docs(store, b) = docs(prev, b)
  /\ count(store, b) = count(prev, b)

\* C8 (SpecNested). An add on name a leaves every record, and the count, of
\* every other name b as they were, where the names are composite keys: b may
\* share its first component with a, its second, be a prefix of a or have a as
\* a prefix.  Likewise addFollower(follower, followee), two adds in one
\* mutation, leaves every key but [followee, "followers"] and
\* [follower, "follows"] as it was.
KeyIndependence ==
  /\ last.op = "add" => \A b \in DOMAIN added \ {last.name} : untouched(b)
  /\ last.op = "addFollower" =>
       \A b \in DOMAIN added \ {<<last.arg[2], "followers">>, <<last.arg[1], "follows">>} :
         untouched(b)

\* An add wrote to a shard of a key [user, kind] while the key of the same
\* user and the other kind holds a non-zero record at the same shard index.
KeyIndependenceWitness ==
  /\ last.op = "add" /\ ~last.threw
  /\ last.count # Zero
  /\ last.name \in NestedNames
  /\ \E b \in NestedNames \ {last.name} :
       /\ b[1] = last.name[1]
       /\ \E c \in docs(store, b), e \in docs(store, last.name) \ docs(prev, last.name) :
            c.shard = e.shard /\ c.value # Zero

\* C9 (SpecTxn). Uniqueness: in every reachable state at most one record
\* exists for each (name, shard) pair.
Uniqueness ==
  \A c \in store, e \in store :
    c.name = e.name /\ c.shard = e.shard => c.id = e.id

\* Two adds found the same shard absent; one has committed its insert and the
\* other, which had planned an insert too, is stale.
UniquenessWitness ==
  \E p \in Procs :
    /\ txn[p].pc = "running" /\ txn[p].stale
    /\ txn[p].call.op = "add"
    /\ txn[p].r.writes[1].op = "insert"
    /\ byShard(store, txn[p].call.name, txn[p].r.ret[1]) # {}

\* C10 as claimed (SpecTxn). Rebalance neither loses nor duplicates
\* concurrent writes: once a rebalance and the adds running next to it have
\* committed, count(name) is the sum of all deltas added.
RebalanceKeepsSum ==
  Quiet =>
    \A n \in Names :
      "rebalance" \in touched[n] /\ "reset" \notin touched[n] =>
        count(store, n) = added[n]

\* C10 as amended (SpecTxn). Rebalance neither loses nor duplicates
\* concurrent writes, up to rounding: once a rebalance and the adds running
\* next to it have committed, and none of these mutations has rounded, the
\* values of the shards add up to the sum of all deltas added, and
\* count(name) is that sum whenever its own additions do not round.
RebalanceKeepsAdds ==
  Quiet =>
    \A n \in Names :
      "rebalance" \in touched[n] /\ "reset" \notin touched[n] /\ unrounded(n) =>
        /\ exactSum(docs(store, n)) = added[n]
        /\ sumsExactly(store, n) => count(store, n) = added[n]

\* An add committed while a rebalance of the same name was in flight; the
\* rebalance was run again and has committed.
RebalanceKeepsAddsWitness ==
  /\ Quiet
  /\ last.op = "rebalance" /\ last.tries = 2 /\ ~last.threw
  /\ "reset" \notin touched[last.name]
  /\ unrounded(last.name) /\ sumsExactly(store, last.name)
  /\ added[last.name] # Zero

\* C11 (SpecAnyShards). Invalid configuration is rejected at the boundary: an
\* add or a rebalance called with a shard count of 0 or less throws and
\* leaves every record as it was.
RejectsInvalidShards ==
  last.op \in {"add", "rebalance"} /\ shardCountOf(last) <= 0 =>
    last.threw /\ store = prev

\* The sums of the sub-collections of the deltas in seq.
RECURSIVE SubsetSums(_)
SubsetSums(seq) ==
  IF seq = <<>> THEN {Zero}
  ELSE LET rest == SubsetSums(Tail(seq))
       IN  rest \cup {ExactPlus(Head(seq), x) : x \in rest}

\* C12 as claimed (SpecRead). Snapshot read: a count(name) that ran next to
\* concurrent adds returns the total of the adds committed before it was
\* issued plus the deltas of some sub-collection of the adds committed while
\* it was in flight.
SnapshotReadOfSum ==
  reader.pc = "returned" =>
    \E x \in SubsetSums(reader.conc) : reader.ret = Some(ExactPlus(reader.base, x))

\* C12 as amended (SpecRead). Snapshot read, up to rounding: when no add to
\* the name has rounded, the values a count(name) read, next to concurrent
\* adds, add up to the total of the adds committed before it was issued plus
\* the deltas of some sub-collection of the adds committed while it was in
\* flight, and that is what it returns whenever its own additions do not
\* round.
SnapshotRead ==
  reader.pc = "returned" /\ unrounded(reader.name) =>
    \E x \in SubsetSums(reader.conc) :
      /\ exactSum(reader.read) = ExactPlus(reader.base, x)
      /\ addsExactly(Ordered(reader.read), Zero) =>
           reader.ret = Some(ExactPlus(reader.base, x))

\* A count returned after one add had committed before it was issued, one
\* between its issue and its read and one between its read and its return:
\* it reflects the first two only, read from two shards.
SnapshotReadWitness ==
  /\ reader.pc = "returned" /\ unrounded(reader.name)
  /\ reader.base # Zero
  /\ Len(reader.conc) = 2
  /\ reader.conc[1] # Zero /\ reader.conc[2] # Zero
  /\ Cardinality(reader.read) = 2
  /\ addsExactly(Ordered(reader.read), Zero)
  /\ reader.ret = Some(ExactPlus(reader.base, reader.conc[1]))

\* C13 (Spec). Shard selection range: an add without a pinned shard and with
\* shard count S (16 when `shards` is omitted) returns an index i with
\* 0 <= i < S, and the record it wrote is the one of (name, i), whose value grew
\* by the delta; with S = 1 the index is 0.
ShardSelectionRange ==
  last.op = "add" /\ last.shard = Undefined /\ ~last.threw =>
    LET S == shardCountOf(last)
        i == last.ret[1]
        old == byShard(prev, last.name, i)
        base == IF old = {} THEN Zero ELSE (CHOOSE c \in old : TRUE).value
    IN  /\ i \in 0..(S - 1)
        /\ S = 1 => i = 0
        /\ \A c \in store \ prev : c.name = last.name /\ c.shard = i
        /\ \E c \in byShard(store, last.name, i) : c.value = Plus(base, last.count)

\* An unpinned add with shards = 2 drew the last index, 1, after an unpinned
\* add with the default count had landed above it.
ShardSelectionRangeWitness ==
  /\ last.op = "add" /\ last.shard = Undefined /\ ~last.threw
  /\ last.shards = Some(2) /\ last.ret = Some(1)
  /\ last.count # Zero
  /\ \E c \in docs(prev, last.name) : c.shard >= 2

\* The k-element subsets of {0, ..., S-1}.
RECURSIVE KSubsets(_, _)
KSubsets(S, k) ==
  IF k = 0 THEN {{}}
  ELSE IF S < k THEN {}
  ELSE KSubsets(S - 1, k) \cup {A \cup {S - 1} : A \in KSubsets(S - 1, k - 1)}

\* The elements of a set of indices, in ascending order.
RECURSIVE Ascending(_)
Ascending(A) ==
  IF A = {} THEN <<>>
  ELSE LET m == CHOOSE x \in A : \A y \in A : x <= y
       IN  <<m>> \o Ascending(A \ {m})

\* The exact sum of the estimates over a set of samples.
RECURSIVE SumEstimates(_, _, _, _, _)
SumEstimates(db, n, S, k, samples) ==
  IF samples = {} THEN Zero
  ELSE LET A == CHOOSE x \in samples : TRUE
       IN  ExactPlus(estimateOver(db, n, Ascending(A), S, k)[1],
                     SumEstimates(db, n, S, k, samples \ {A}))

\* The shard counts S and sample sizes k the estimator is averaged for: those
\* with few samples.
EstimatorCases ==
  {<<S, k>> : S \in 1..(MaxShards + 1), k \in 1..(MaxShards + 1)}
  \cup {<<DEFAULT_SHARD_COUNT, 1>>, <<DEFAULT_SHARD_COUNT, DEFAULT_SHARD_COUNT>>}

\* The shard count and the sample size of the estimateCount that has returned.
EstimatorCase ==
  <<shardCountOf(last), clampReads(last.reads, shardCountOf(last))>>

\* The orders in which the elements of a set can be read.
RECURSIVE Orders(_)
Orders(D) ==
  IF D = {} THEN {<<>>}
  ELSE UNION {{<<c>> \o seq : seq \in Orders(D \ {c})} : c \in D}

\* The records of name n at the indices in A.
sampled(db, n, A) == {c \in docs(db, n) : c.shard \in A}

\* The estimate from the sample A does not round, in whatever order the sample
\* is read: not the additions to readCount, not the product with shardCount,
\* not the division by readFromShards.
readsExactly(db, n, A, shardCount, readFromShards) ==
  /\ \A seq \in Orders(sampled(db, n, A)) : addsExactly(seq, Zero)
  /\ Times(exactSum(sampled(db, n, A)), Num(shardCount))
       = ExactTimes(exactSum(sampled(db, n, A)), Num(shardCount))
  /\ divides(Times(exactSum(sampled(db, n, A)), Num(shardCount)), readFromShards)

\* C14 as claimed (SpecEstimate). The estimator is unbiased: for the name,
\* shard count S and k in 1..S of a call, the average of the estimate over all k-element
\* subsets of {0, ..., S-1} is the sum of the values of the shards with index
\* below S, which is count(name) when no shard of the name lies at or above S.
UnbiasedOnAverage ==
  last.op = "estimateCount" /\ EstimatorCase \in EstimatorCases =>
    LET n == last.name
        S == EstimatorCase[1]
        k == EstimatorCase[2]
        samples == KSubsets(S, k)
        inRange == exactSum(sampled(store, n, 0..(S - 1)))
    IN  /\ \A A \in samples : estimateOver(store, n, Ascending(A), S, k) # Undefined
        /\ SumEstimates(store, n, S, k, samples)
             = ExactTimes(Num(Cardinality(samples)), inRange)
        /\ (\A c \in docs(store, n) : c.shard < S) => inRange = count(store, n)

\* C14 as amended (SpecEstimate). The estimator is unbiased up to rounding:
\* for the name, shard count S and k in 1..S of a call such that the estimate from no
\* k-element subset of {0, ..., S-1} rounds, the average of the estimate over
\* all these subsets is the sum of the values of the shards with index below
\* S, which is count(name) when no shard of the name lies at or above S and
\* the additions of count do not round.
Unbiased ==
  last.op = "estimateCount" /\ EstimatorCase \in EstimatorCases =>
    LET n == last.name
        S == EstimatorCase[1]
        k == EstimatorCase[2]
        samples == KSubsets(S, k)
        inRange == exactSum(sampled(store, n, 0..(S - 1)))
    IN  (\A A \in samples : readsExactly(store, n, A, S, k)) =>
          /\ \A A \in samples : estimateOver(store, n, Ascending(A), S, k) # Undefined
          /\ SumEstimates(store, n, S, k, samples)
               = ExactTimes(Num(Cardinality(samples)), inRange)
          /\ (/\ \A c \in docs(store, n) : c.shard < S
              /\ sumsExactly(store, n)) => inRange = count(store, n)

\* A name holds different non-zero values at shards 0 and 1: with S = 2 and
\* k = 1 the two possible samples give different estimates, computed without
\* rounding, neither of them the count, and estimateCount has returned the
\* one read from shard 1.
UnbiasedWitness ==
  \E n \in Names :
    LET e0 == estimateOver(store, n, <<0>>, 2, 1)
        e1 == estimateOver(store, n, <<1>>, 2, 1)
    IN  /\ last.op = "estimateCount" /\ last.name = n
        /\ last.shards = Some(2) /\ last.reads = Some(1) /\ last.ret = e1
        /\ Cardinality(docs(store, n)) = 2
        /\ readsExactly(store, n, {0}, 2, 1) /\ readsExactly(store, n, {1}, 2, 1)
        /\ e0 # e1
        /\ e0 # Some(count(store, n)) /\ e1 # Some(count(store, n))
        /\ count(store, n) # Zero

\* The total T and the shard count S' are such that S' times floor(T / S') is
\* an integer among the doubles: |T| + S' <= 2^53.
inSafeRange(T, shardCount) ==
  Leq(ExactPlus(AbsOf(T), Num(shardCount)), TwoTo53)

\* C15 as claimed (SpecRebalance). After rebalance(name, S') with prior total
\* T every shard of name holds a value that differs from T/S' by at most 1,
\* under both distribution policies; after the even division each holds
\* exactly T/S'.
RebalanceWithinUnit ==
  last.op \in {"rebalance", "rebalanceRemainder"} /\ ~last.threw =>
    LET T == count(prev, last.name)
        S == shardCountOf(last)
    IN  \A c \in docs(store, last.name) :
          /\ Leq(AbsOf(ExactMinus(ExactTimes(c.value, Num(S)), T)), Num(S))
          /\ last.op = "rebalance" => ExactTimes(c.value, Num(S)) = T

\* C15 as amended (SpecRebalance). After rebalance(name, S') with prior total
\* T of magnitude at most 2^53 every shard of name holds a value that differs
\* from T/S' by at most 1, under both distribution policies; after the even
\* division each holds the double nearest to T/S', which is T/S' when the
\* division does not round.
RebalanceWithinOne ==
  last.op \in {"rebalance", "rebalanceRemainder"} /\ ~last.threw =>
    LET T == count(prev, last.name)
        S == shardCountOf(last)
    IN  \A c \in docs(store, last.name) :
          /\ Leq(AbsOf(T), TwoTo53) =>
               Leq(AbsOf(ExactMinus(ExactTimes(c.value, Num(S)), T)), Num(S))
          /\ last.op = "rebalance" =>
               /\ c.value = Over(T, Num(S))
               /\ divides(T, S) => ExactTimes(c.value, Num(S)) = T

\* A remainder-distributing rebalance of a fractional total: one shard got a
\* whole extra unit, another the fractional leftover.
RebalanceWithinOneWitness ==
  /\ last.op = "rebalanceRemainder" /\ ~last.threw
  /\ Leq(AbsOf(count(prev, last.name)), TwoTo53)
  /\ \E c \in docs(store, last.name), e \in docs(store, last.name) :
       /\ IsInteger(c.value) /\ ~IsInteger(e.value)
       /\ Leq(e.value, c.value) /\ c.value # e.value
  /\ count(prev, last.name).s < 0

\* C16 (SpecFail). A failed add leaves the target shard record and every other
\* record exactly as they were, no record created: whether the database threw
\* during the handler or the commit was refused, and whether or not the
\* writes a failing handler had completed are discarded.  The handler issues
\* one write, a patch or an insert, as its last step.
FailedAddChangesNothing ==
  last.op = "add" /\ last.threw => store = prev /\ nextId = Cardinality(prev) + 1

\* An add of a non-zero count to an existing, non-zero shard failed on its
\* patch, and what the handler had written before the failure was to stay.
FailedAddChangesNothingWitness ==
  /\ last.op = "add" /\ last.threw
  /\ last.keeps
  /\ last.wrote = 0
  /\ last.count # Zero
  /\ last.shard # Undefined
  /\ \E c \in docs(prev, last.name) : c.shard = last.shard[1] /\ c.value # Zero

\* The shard count the options resolve to for the key of the last call.
resolved ==
  IF last.name \in DOMAIN client.options.shards
  THEN Some(client.options.shards[last.name])
  ELSE client.options.defaultShards

\* C18 (SpecClient). Client shard-count resolution: the `shards` the client
\* passes for a key in add, rebalance and estimateCount is the per-key value of
\* options.shards when present, otherwise options.defaultShards, otherwise
\* none, and the component then works with 16 shards.
ShardCountResolution ==
  last.op \in {"add", "rebalance", "estimateCount"} /\ ~last.threw =>
    /\ last.shards = resolved
    /\ last.op = "rebalance" =>
         Cardinality(docs(store, last.name)) = Coalesce(resolved, 16)
    /\ last.op = "add" /\ last.shard = Undefined =>
         last.ret[1] \in 0..(Coalesce(resolved, 16) - 1)

\* A rebalance of the key that options.shards names, on a client whose
\* defaultShards is another number; an add for that key was made before.
ShardCountResolutionWitness ==
  /\ last.op = "rebalance" /\ ~last.threw
  /\ last.name \in DOMAIN client.options.shards
  /\ client.options.defaultShards # Undefined
  /\ client.options.defaultShards # resolved
  /\ client.adds[last.name] > 0

\* The call was issued with the shard returned to the add of its key that had
\* returned last, with none when none had returned.
pinnedAsReturned(call) ==
  call.shard = IF call.after = 0 THEN Undefined
               ELSE Some(client.returned[call.name][call.after])

\* C19 (SpecOverlap). Sticky shard: the first add for a key passes no pinned
\* shard; every later add for that key issued after the first has returned
\* passes the shard index the first one returned, and writes that shard.
StickyShardOfFirst ==
  /\ \A p \in Procs :
       txn[p].pc # "idle" =>
         /\ txn[p].call.nth = 1 => txn[p].call.shard = Undefined
         /\ txn[p].call.settled =>
              txn[p].call.shard = client.first[txn[p].call.name]
  /\ last.op = "add" /\ ~last.threw /\ last.settled =>
       /\ last.shard = client.first[last.name]
       /\ last.ret = client.first[last.name]
       /\ \A c \in store \ prev :
            c.name = last.name /\ Some(c.shard) = client.first[last.name]

\* What stickyShard does ensure (SpecOverlap): the first add for a key passes
\* no pinned shard; every later add passes the shard index returned to the add
\* of the key that had returned last when it was issued (none when none had
\* returned), which is the recorded one, and a pinned add writes and returns
\* its pinned shard; when no two adds of the key were in flight together, all
\* of them returned the shard of the first.
LastReturnedShardSticks ==
  /\ \A p \in Procs : txn[p].pc # "idle" => pinnedAsReturned(txn[p].call)
  /\ last.op = "add" /\ ~last.threw =>
       /\ pinnedAsReturned(last)
       /\ last.nth = 1 => last.shard = Undefined
       /\ last.shard # Undefined =>
            /\ last.ret = last.shard
            /\ \A c \in store \ prev :
                 c.name = last.name /\ Some(c.shard) = last.shard
  /\ \A n \in Names :
       /\ client.stickyShard[n] =
            IF client.returned[n] = <<>> THEN Undefined
            ELSE Some(client.returned[n][Len(client.returned[n])])
       /\ ~client.overlapped[n] =>
            \A i \in 1..Len(client.returned[n]) :
              Some(client.returned[n][i]) = client.first[n]

\* Two adds of a key were issued together and returned the shards 0 and 1; a
\* third, issued after both, was pinned to the shard of the one that returned
\* last and wrote it.
LastReturnedShardSticksWitness ==
  /\ last.op = "add" /\ ~last.threw
  /\ last.after = 2
  /\ client.overlapped[last.name]
  /\ client.returned[last.name][1] # client.returned[last.name][2]
  /\ last.shard = Some(client.returned[last.name][2])
  /\ last.ret = last.shard
  /\ count(store, last.name) # count(prev, last.name)

\* The shard records of a table: name, shard and value of every document.
records(db) == {[name |-> c.name, shard |-> c.shard, value |-> c.value] : c \in db}

\* The table after an add of cnt to name, pinned to shard, has committed on
\* db; nid is the _id a document it inserts gets, one no document of db has.
afterAdd(db, nid, name, cnt, shard) ==
  applyWrites([ok |-> TRUE, db |-> db, nid |-> nid],
              add(db, name, cnt, Some(shard), Undefined, 0).writes).db

\* C20 as claimed (SpecClient). Client arithmetic: subtract(name, c) has the
\* effect of add(name, -c) (of add(name, -1) when c is omitted), inc that of
\* add(name, 1) and dec that of add(name, -1); add(name, c) followed by
\* subtract(name, c) leaves count(name) as it was before the add.
ClientArithmeticRestores ==
  last.op = "add" /\ ~last.threw =>
    LET n == last.name
        c == Coalesce(last.arg, Num(1))
    IN  /\ last.via = "add" => records(store) = records(afterAdd(prev, nextId, n, c, last.ret[1]))
        /\ last.via = "subtract" => records(store) = records(afterAdd(prev, nextId, n, Neg(c), last.ret[1]))
        /\ last.via = "inc" => records(store) = records(afterAdd(prev, nextId, n, Num(1), last.ret[1]))
        /\ last.via = "dec" => records(store) = records(afterAdd(prev, nextId, n, Num(-1), last.ret[1]))
        /\ (/\ last.via = "subtract"
            /\ client.earlier.via = "add"
            /\ client.earlier.name = n
            /\ Coalesce(client.earlier.arg, Num(1)) = c) =>
             count(store, n) = client.earlier.total

\* C20 as amended (SpecClient). Client arithmetic: subtract(name, c) has the
\* effect of add(name, -c) (of add(name, -1) when c is omitted), inc that of
\* add(name, 1) and dec that of add(name, -1); add(name, c) followed by
\* subtract(name, c) leaves count(name) as it was before the add whenever
\* neither of the two additions, nor count's before and after, rounds.
ClientArithmetic ==
  last.op = "add" /\ ~last.threw =>
    LET n == last.name
        c == Coalesce(last.arg, Num(1))
    IN  /\ last.via = "add" => records(store) = records(afterAdd(prev, nextId, n, c, last.ret[1]))
        /\ last.via = "subtract" => records(store) = records(afterAdd(prev, nextId, n, Neg(c), last.ret[1]))
        /\ last.via = "inc" => records(store) = records(afterAdd(prev, nextId, n, Num(1), last.ret[1]))
        /\ last.via = "dec" => records(store) = records(afterAdd(prev, nextId, n, Num(-1), last.ret[1]))
        /\ (/\ last.via = "subtract"
            /\ client.earlier.via = "add"
            /\ client.earlier.name = n
            /\ Coalesce(client.earlier.arg, Num(1)) = c
            /\ ~client.earlier.rounded /\ ~client.recent.rounded
            /\ client.earlier.exact /\ sumsExactly(store, n)) =>
             count(store, n) = client.earlier.total

\* subtract(name, 0.1) right after add(name, 0.1) on a shard that held 0.2:
\* the add stored 0.30000000000000004, and the subtract is the component's add
\* of -0.1 to it.  On the empty table the pair leaves the count at 0 again.
ClientArithmeticWitness ==
  /\ last.op = "add" /\ last.via = "subtract" /\ ~last.threw
  /\ last.arg = Some(Rat(1, 10))
  /\ client.earlier.via = "add" /\ client.earlier.name = last.name
  /\ client.earlier.arg = last.arg
  /\ ~client.earlier.rounded /\ ~client.recent.rounded
  /\ client.earlier.exact /\ sumsExactly(store, last.name)
  /\ count(prev, last.name) = Rat(1, 10)
  /\ count(store, last.name) = client.earlier.total

\* C21 (SpecStep). Write frame: a successful add(name, d) that chose shard i
\* leaves one record at (name, i), holding d when there was none and the old
\* value plus d (in the same document) when there was one; the records at
\* every other shard of the name and of every other name are the same
\* documents with the same values as before.
WriteFrame ==
  last.op = "add" /\ ~last.threw =>
    LET chosen(c) == c.name = last.name /\ c.shard = last.ret[1]
        before == {c \in prev : chosen(c)}
        after == {c \in store : chosen(c)}
    IN  /\ {c \in store : ~chosen(c)} = {c \in prev : ~chosen(c)}
        /\ Cardinality(after) = 1
        /\ \A c \in after :
             IF before = {}
             THEN c.value = last.count /\ (\A o \in prev : o.id # c.id)
             ELSE \E o \in before : c = [o EXCEPT !.value = Plus(o.value, last.count)]

\* An unpinned add of a non-zero delta drew a shard above 0 that held a
\* non-zero value, beside another shard of the same name.
WriteFrameWitness ==
  /\ last.op = "add" /\ ~last.threw
  /\ last.shard = Undefined /\ last.ret[1] > 0
  /\ last.count # Zero
  /\ \E o \in docs(prev, last.name) : o.shard = last.ret[1] /\ o.value # Zero
  /\ \E o \in docs(prev, last.name) : o.shard # last.ret[1] /\ o.value # Zero

\* C22 (SpecStep). Shard lifecycle: after an add every record that was in the
\* table is still there, at its name and shard, also when its value has come
\* back to 0; a record that is gone after a call had the name of the call and
\* was removed by a rebalance (its index at or above the target count) or by a
\* reset.
ShardLifecycle ==
  /\ last.op = "add" =>
       \A c \in prev : \E e \in store :
         e.id = c.id /\ e.name = c.name /\ e.shard = c.shard
  /\ \A c \in prev :
       (\A e \in store : e.id # c.id) =>
         /\ c.name = last.name
         /\ \/ last.op = "rebalance" /\ c.shard >= shardCountOf(last)
            \/ last.op = "reset"

\* An add took a shard's non-zero value back to 0, and the record is in the
\* table with the value 0.
ShardLifecycleWitness ==
  /\ last.op = "add" /\ ~last.threw
  /\ \E c \in prev, e \in store :
       /\ c.name = last.name /\ c.shard = last.ret[1] /\ c.value # Zero
       /\ e.id = c.id /\ e.value = Zero

\* C23 (SpecEstimate). Estimator sample: with S the shard count of the call and
\* k = min(max(1, readFromShards), S), readFromShards being 1 when omitted, the
\* shards estimateCount reads are k indices, each within 0 .. S-1 and no two the
\* same, whatever the shuffle draws.
EstimatorSample ==
  last.op = "estimateCount" =>
    LET S == shardCountOf(last)
        r == IF last.reads = Undefined THEN 1 ELSE last.reads[1]
        k == IF r < 1 THEN 1 ELSE IF r > S THEN S ELSE r
    IN  \A tape \in Tapes :
          LET shards == sample(S, clampReads(last.reads, S), tape)
          IN  /\ Len(shards) = k
              /\ \A a \in 1..k : shards[a] \in 0..(S - 1)
              /\ \A a \in 1..k, b \in 1..k : a # b => shards[a] # shards[b]

\* A call that reads more than one shard and fewer than all of them.
EstimatorSampleWitness ==
  /\ last.op = "estimateCount" /\ ~last.threw
  /\ last.reads # Undefined
  /\ last.reads[1] > 1 /\ last.reads[1] < shardCountOf(last)

\* C24 (SpecEstimate). Estimator result: estimateCount returns, without
\* error, the sum of the values of the records at the indices of one sample
\* the shuffle can draw, added in the order of the sample, times S over k, an
\* index without a record adding nothing; for a name without any record both
\* estimateCount and count give 0.
EstimatorResult ==
  last.op = "estimateCount" =>
    /\ ~last.threw
    /\ \E tape \in Tapes :
         last.ret =
           Some(Over(Times(reduce(readOf(store, last.name,
                                         sample(shardCountOf(last),
                                                clampReads(last.reads, shardCountOf(last)),
                                                tape)),
                                  Zero),
                           Num(shardCountOf(last))),
                     Num(clampReads(last.reads, shardCountOf(last)))))
    /\ docs(store, last.name) = {} =>
         last.ret = Some(Zero) /\ count(store, last.name) = Zero

\* A call with two shards that read both: shard 0 holds a non-zero value,
\* shard 1 has no record, and the value of shard 0 is what it returned.
EstimatorResultWitness ==
  /\ last.op = "estimateCount" /\ ~last.threw
  /\ last.shards = Some(2)
  /\ last.reads # Undefined /\ last.reads[1] >= 2
  /\ byShard(store, last.name, 1) = {}
  /\ \E c \in byShard(store, last.name, 0) : c.value # Zero /\ last.ret = Some(c.value)

\* C25 as claimed (SpecEstimate). Full-sample estimate: when every record of
\* the name has its index in 0 .. S-1, estimateCount(name, shards = S,
\* readFromShards = S) returns count(name), whether the shards hold equal
\* values (as a rebalance leaves them) or not.
FullSampleIsCount ==
  (/\ last.op = "estimateCount"
   /\ last.shards # Undefined /\ last.reads = last.shards
   /\ \A c \in docs(store, last.name) : c.shard \in 0..(last.shards[1] - 1)) =>
    last.ret = Some(count(store, last.name))

\* C25 as amended (SpecEstimate). Full-sample estimate: when every record of
\* the name has its index in 0 .. S-1, estimateCount(name, shards = S,
\* readFromShards = S) returns count(name), whether the shards hold equal
\* values or not, whenever neither the arithmetic of the estimate nor the
\* additions of count round.
FullSampleEstimate ==
  (/\ last.op = "estimateCount"
   /\ last.shards # Undefined /\ last.reads = last.shards
   /\ \A c \in docs(store, last.name) : c.shard \in 0..(last.shards[1] - 1)
   /\ readsExactly(store, last.name, 0..(last.shards[1] - 1),
                   last.shards[1], last.shards[1])
   /\ sumsExactly(store, last.name)) =>
    last.ret = Some(count(store, last.name))

\* Such a call with S = 2 on a name whose shards 0 and 1 hold different
\* values that add up to a non-zero count without rounding.
FullSampleEstimateWitness ==
  /\ last.op = "estimateCount" /\ ~last.threw
  /\ last.shards = Some(2) /\ last.reads = Some(2)
  /\ \A c \in docs(store, last.name) : c.shard < 2
  /\ readsExactly(store, last.name, {0, 1}, 2, 2) /\ sumsExactly(store, last.name)
  /\ \E c \in docs(store, last.name), e \in docs(store, last.name) :
       c.value # e.value
  /\ count(store, last.name) # Zero
  /\ last.ret = Some(count(store, last.name))

\* n!
RECURSIVE Factorial(_)
Factorial(n) == IF n <= 1 THEN 1 ELSE n * Factorial(n - 1)

\* The number of positions of a sequence that hold x.
Occurrences(seq, x) == Cardinality({a \in DOMAIN seq : seq[a] = x})

\* C26 (SpecShuffle). Fair shuffle: the array shuffle returns has the
\* elements of its input, each as many times as the input; for an input of n
\* different elements no other sequence of values of j gives the same result,
\* and the sequences of values of j give n! results between them, so every
\* permutation comes from exactly one sequence; and the shuffle driven by a
\* tape of Math.random() draws is the shuffle by the values of j they give.
FairShuffle ==
  last.op = "shuffle" =>
    LET n == Len(last.arg)
        results == {shuffleBy(last.arg, n - 1, js, 1) : js \in JSeqs(n)}
    IN  /\ Len(last.ret) = n
        /\ \A x \in 0..MaxShards : Occurrences(last.ret, x) = Occurrences(last.arg, x)
        /\ (\A a \in 1..n, b \in 1..n : a # b => last.arg[a] # last.arg[b]) =>
             /\ \A js \in JSeqs(n) :
                  shuffleBy(last.arg, n - 1, js, 1) = last.ret => js = last.reads
             /\ Cardinality(results) = Factorial(n)
        /\ \A tape \in Tapes :
             shuffle(last.arg, tape) = shuffleBy(last.arg, n - 1, drawsOf(n, tape), 1)

\* A shuffle of three different elements that moved every one of them.
FairShuffleWitness ==
  /\ last.op = "shuffle"
  /\ Len(last.arg) = 3
  /\ \A a \in 1..3, b \in 1..3 : a # b => last.arg[a] # last.arg[b]
  /\ \A a \in 1..3 : last.ret[a] # last.arg[a]

\* The values count(n) adds up, in the order in which it adds them.
summands(db, n) == [k \in 1..Len(collect(db, n)) |-> collect(db, n)[k].value]

\* Two tables hold the same shard records, so that count adds up the same
\* values in the same order for every name; where the two adds meet on the
\* shard of name n, the counts themselves are compared.
sameTables(a, b, n, met) ==
  /\ records(a) = records(b)
  /\ \A m \in Names : summands(a, m) = summands(b, m)
  /\ met => count(a, n) = count(b, n)

\* Adding a and then b to the value v does not round.
addsInTurn(v, a, b) ==
  /\ Plus(v, a) = ExactPlus(v, a)
  /\ Plus(Plus(v, a), b) = ExactPlus(Plus(v, a), b)

\* C27 as claimed (SpecStep). Adds commute: with the add that has just
\* committed (on shard i of its name) and any second add with a fixed shard,
\* on the same shard, another shard or another name, the shard records, and
\* hence the count, are the same whether the second add commits after the
\* first or before it.
AddsCommuteAlways ==
  last.op = "add" /\ ~last.threw =>
    \A name \in Names, cnt \in Deltas, shard \in 0..MaxShards :
      \A thisFirst \in {afterAdd(store, nextId, name, cnt, shard)},
         thisSecond \in {afterAdd(afterAdd(prev, nextId, name, cnt, shard),
                                  nextId + 1,
                                  last.name, last.count, last.ret[1])} :
        sameTables(thisFirst, thisSecond, name,
                   name = last.name /\ shard = last.ret[1])

\* C27 as amended (SpecStep). Adds commute: with the add that has just
\* committed (on shard i of its name) and any second add with a fixed shard,
\* the shard records, and hence the count, are the same whether the
\* second add commits after the first or before it, when the two are on
\* different shards or names, and on the same shard when in neither order an
\* addition to the shard's value rounds.
AddsCommute ==
  last.op = "add" /\ ~last.threw =>
    \A name \in Names, cnt \in Deltas, shard \in 0..MaxShards :
      (\/ name # last.name
       \/ shard # last.ret[1]
       \/ \A c \in byShard(prev, name, shard) :
            /\ addsInTurn(c.value, last.count, cnt)
            /\ addsInTurn(c.value, cnt, last.count)) =>
        \A thisFirst \in {afterAdd(store, nextId, name, cnt, shard)},
           thisSecond \in {afterAdd(afterAdd(prev, nextId, name, cnt, shard),
                                    nextId + 1,
                                    last.name, last.count, last.ret[1])} :
          sameTables(thisFirst, thisSecond, name,
                   name = last.name /\ shard = last.ret[1])

\* An add of a non-zero delta created its shard: a second add on the same
\* shard patches the record in one order and creates it in the other.
AddsCommuteWitness ==
  /\ last.op = "add" /\ ~last.threw
  /\ last.count # Zero
  /\ byShard(prev, last.name, last.ret[1]) = {}
  /\ docs(prev, last.name) # {}

\* C28 (SpecClient). Steady-state index range: through one ShardedCounter
\* instance every add and rebalance on a name passes the same shard count S
\* (that of the options, 16 by default), every add is unpinned or pinned to
\* the sticky shard, the sticky shard is an index an earlier add of the name
\* returned and lies in 0 .. S-1, and so does the index of every record of the
\* name.
SteadyStateRange ==
  /\ last.op \in {"add", "rebalance"} =>
       /\ last.shards = shardsForKey(client.options, last.name)
       /\ shardCountOf(last) >= 1
       /\ last.shard # Undefined => last.shard[1] \in 0..(shardCountOf(last) - 1)
  /\ \A n \in Names :
       LET S == Coalesce(shardsForKey(client.options, n), DEFAULT_SHARD_COUNT)
       IN  /\ \A c \in docs(store, n) : c.shard \in 0..(S - 1)
           /\ client.stickyShard[n] # Undefined =>
                /\ \E i \in 1..Len(client.returned[n]) :
                     client.stickyShard[n] = Some(client.returned[n][i])
                /\ client.stickyShard[n][1] \in 0..(S - 1)

\* With two shards for the key, the first add drew shard 1, the highest
\* index, and the second add was pinned to it.
SteadyStateRangeWitness ==
  /\ last.op = "add" /\ ~last.threw
  /\ last.shards = Some(2)
  /\ last.shard = Some(1)
  /\ client.adds[last.name] = 2
  /\ \E c \in docs(store, last.name) : c.shard = 1

\* The documents of a table without their values.
places(db) == {[id |-> c.id, name |-> c.name, shard |-> c.shard] : c \in db}

\* C29 as claimed (SpecRebalance). Rebalance is idempotent: a second
\* rebalance(name, S') right after the first, with no write in between, leaves
\* the table as the first left it: the same documents at the same indices
\* with the same values, none created and none deleted.
RebalanceTwiceIsOnce ==
  last.op = "rebalance" /\ nops = 2 =>
    /\ ~last.threw
    /\ store = prev

\* C29 as amended (SpecRebalance). Rebalance is idempotent up to rounding: a
\* second rebalance(name, S') right after the first, with no write in
\* between, leaves the same documents at the same indices, none created and
\* none deleted, and with the same values when the S' equal values add up
\* without rounding to a total that S' divides without rounding.
RebalanceIdempotent ==
  last.op = "rebalance" /\ nops = 2 =>
    /\ ~last.threw
    /\ places(store) = places(prev)
    /\ (/\ sumsExactly(prev, last.name)
        /\ divides(count(prev, last.name), shardCountOf(last))) => store = prev

\* The second of two rebalances of a non-zero total onto two or more shards,
\* neither the sum nor the division rounding.
RebalanceIdempotentWitness ==
  /\ last.op = "rebalance" /\ nops = 2 /\ ~last.threw
  /\ shardCountOf(last) >= 2
  /\ sumsExactly(prev, last.name)
  /\ divides(count(prev, last.name), shardCountOf(last))
  /\ count(store, last.name) # Zero

\* C30 (Spec). rebalance(name, ...) and reset(name) write and delete records
\* of name only: the records of every other name, and the count of every
\* other name, are the same after the call as before it.
OtherNamesUntouched ==
  last.op \in {"rebalance", "reset"} =>
    \A b \in Names \ {last.name} :
      /\ {c \in store : c.name = b} = {c \in prev : c.name = b}
      /\ count(store, b) = count(prev, b)
      /\ \A c \in store \ prev : c.name = last.name
      /\ \A c \in prev \ store : c.name = last.name

\* A rebalance or reset of one key while another key holds a non-zero value.
OtherNamesUntouchedWitness ==
  /\ last.op \in {"rebalance", "reset"} /\ ~last.threw
  /\ \E b \in Names \ {last.name} :
       /\ \E c \in docs(store, b) : c.value # Zero

\* The values the shards 0 .. S-1 of the name of the last call hold are
\* integers, q + 1 on the first r shards and q on the others, with r = T - q S
\* in 0 .. S-1 (so that q is floor(T / S)), and they sum to T.
distributes(T, S, q) ==
  LET r == ExactMinus(T, ExactTimes(q, Num(S)))
  IN  /\ IsInteger(q)
      /\ Leq(Zero, r) /\ Less(r, Num(S))
      /\ \A i \in 0..(S - 1) :
           \E c \in store :
             /\ byShard(store, last.name, i) = {c}
             /\ c.value = IF Less(Num(i), r) THEN ExactPlus(q, Num(1)) ELSE q
      /\ exactSum(docs(store, last.name)) = T
      /\ count(store, last.name) = T

\* C31 as claimed (SpecRebalance). Integral distribution: the
\* remainder-distributing rebalance of an integer total T onto S' shards
\* writes integers only, with r = T - floor(T/S') * S': floor(T/S') + 1 to the
\* shards 0 .. r-1 and floor(T/S') to the shards r .. S'-1; the S' values sum
\* to T.
IntegralDistributionOfTotal ==
  (/\ last.op = "rebalanceRemainder" /\ ~last.threw
   /\ IsInteger(count(prev, last.name))) =>
    \E c \in byShard(store, last.name, shardCountOf(last) - 1) :
      distributes(count(prev, last.name), shardCountOf(last), c.value)

\* C31 as amended (SpecRebalance). Integral distribution: the
\* remainder-distributing rebalance of an integer total T onto S' shards,
\* with |T| + S' at most 2^53, writes integers only, with r = T - floor(T/S')
\* * S': floor(T/S') + 1 to the shards 0 .. r-1 and floor(T/S') to the shards
\* r .. S'-1; the S' values sum to T.
IntegralDistribution ==
  (/\ last.op = "rebalanceRemainder" /\ ~last.threw
   /\ IsInteger(count(prev, last.name))
   /\ inSafeRange(count(prev, last.name), shardCountOf(last))) =>
    \E c \in byShard(store, last.name, shardCountOf(last) - 1) :
      distributes(count(prev, last.name), shardCountOf(last), c.value)

\* A negative integer total was spread over more shards than one: some shards
\* got the extra unit and some did not.
IntegralDistributionWitness ==
  /\ last.op = "rebalanceRemainder" /\ ~last.threw
  /\ IsInteger(count(prev, last.name)) /\ count(prev, last.name).s < 0
  /\ inSafeRange(count(prev, last.name), shardCountOf(last))
  /\ \E c \in docs(store, last.name), e \in docs(store, last.name) :
       c.shard < e.shard /\ c.value = Plus(e.value, Num(1))

\* C32 as claimed (SpecRebalance). In the remainder-distributing rebalance the
\* remainder T - floor(T/S') * S' has the sign of the total T (it is never of
\* the opposite sign, and is 0 when T is 0) and a magnitude below S'.
RemainderSignOfTotal ==
  last.op = "rebalanceRemainder" =>
    LET T == count(prev, last.name)
        rem == remainderOf(T, shardCountOf(last))
    IN  /\ T.s > 0 => rem.s >= 0
        /\ T.s < 0 => rem.s <= 0
        /\ T.s = 0 => rem.s = 0
        /\ ~Leq(Num(shardCountOf(last)), AbsOf(rem))

\* C32 as amended (SpecRebalance). For a total T and a shard count S' with
\* |T| + S' at most 2^53 the remainder is never negative, whatever the sign
\* of T, and at most S'; for an integer T it lies below S', is T - floor(T/S')
\* * S' without rounding, and is what the values written exceed S' times
\* floor(T/S') by.
RemainderRange ==
  (/\ last.op = "rebalanceRemainder"
   /\ inSafeRange(count(prev, last.name), shardCountOf(last))) =>
    LET T == count(prev, last.name)
        S == shardCountOf(last)
        rem == remainderOf(T, S)
    IN  /\ Leq(Zero, rem)
        /\ Leq(rem, Num(S))
        /\ IsInteger(T) =>
             /\ Less(rem, Num(S))
             /\ rem = ExactMinus(T, ExactTimes(baseCount(T, S), Num(S)))
             /\ ~last.threw
             /\ ExactMinus(exactSum(docs(store, last.name)),
                           ExactTimes(baseCount(T, S), Num(S))) = rem

\* A remainder-distributing rebalance of a negative total whose remainder is
\* positive.
RemainderRangeWitness ==
  /\ last.op = "rebalanceRemainder" /\ ~last.threw
  /\ inSafeRange(count(prev, last.name), shardCountOf(last))
  /\ count(prev, last.name).s < 0
  /\ remainderOf(count(prev, last.name), shardCountOf(last)).s > 0

\* C33 (SpecLoop). The remainder loop terminates: it never makes more than
\* S' passes, after S' passes the running remainder is 0, and when it stops
\* the running remainder is 0, the extras are at most S', one for each of the
\* shard indices 0, 1, ... below S', and they are the extras the handler
\* distributes.
LoopTerminates ==
  last.op = "while" =>
    LET S == shardCountOf(last)
        start == remainderOf(last.count, S)
    IN  /\ Len(last.arg) <= S
        /\ Len(last.arg) = S => last.ret = Some(Zero)
        /\ AbsOf(last.ret[1]) = Zero =>
             /\ last.ret = Some(Zero)
             /\ \A i \in 1..Len(last.arg) : i - 1 \in 0..(S - 1)
             /\ Some(last.arg) = extraCounts(start)

\* What the loop does ensure (SpecLoop): for a total T with |T| + S' at most
\* 2^53 it makes at most S' passes, and when it stops the extras are the
\* extras the handler distributes.
LoopEndsInRange ==
  last.op = "while" /\ inSafeRange(last.count, shardCountOf(last)) =>
    /\ Len(last.arg) <= shardCountOf(last)
    /\ ~Less(Zero, AbsOf(last.ret[1])) =>
         Some(last.arg) = extraCounts(remainderOf(last.count, shardCountOf(last)))

\* C34 (SpecTrigger). Trigger counting: with the writes of `users` wrapped by
\* counter.trigger("users"), an insert adds 1 to the key, a delete takes 1
\* away and an update leaves it alone, so after any sequence of them the count
\* of the key is its value when the trigger was registered plus the number of
\* documents now in the table minus the number then.
TriggerCounting ==
  /\ count(store, "users")
       = Plus(app.installed.total, Num(Cardinality(app.users) - app.installed.docs))
  /\ last.via = "insert" => count(store, "users") = Plus(count(prev, "users"), Num(1))
  /\ last.via = "delete" => count(store, "users") = Plus(count(prev, "users"), Num(-1))
  /\ last.via = "update" => store = prev

\* An update follows an insert and a delete, on a table that held a document
\* and a key that had a count when the trigger was registered.
TriggerCountingWitness ==
  /\ nops = MaxWrites /\ last.via = "update" /\ ~last.threw
  /\ app.installed.docs > 0 /\ app.installed.total # Zero
  /\ app.clock > app.installed.docs
  /\ Cardinality(app.users) = app.installed.docs

\* The number of bits set in a byte.
RECURSIVE bitsOf(_)
bitsOf(byte) == IF byte = 0 THEN 0 ELSE (byte % 2) + bitsOf(byte \div 2)

\* The number of checked boxes of a document.
RECURSIVE checkedOf(_, _)
checkedOf(boxes, used) ==
  IF used = {} THEN 0
  ELSE LET k == CHOOSE k \in used : TRUE
       IN  bitsOf(boxes[k]) + checkedOf(boxes, used \ {k})

\* The number of checked boxes of a table.
RECURSIVE checkedIn(_)
checkedIn(checkboxes) ==
  IF checkboxes = {} THEN 0
  ELSE LET c == CHOOSE c \in checkboxes : TRUE
       IN  checkedOf(c.boxes, {k \in DOMAIN c.boxes : c.boxes[k] # 0})
             + checkedIn(checkboxes \ {c})

\* The state of the box the latest toggle names, in a table; a document that
\* is not there has no box checked.
boxIn(checkboxes, call) ==
  LET found == firstCheckbox(checkboxes, call.arg[1])
  IN  found # Undefined /\ isChecked(found[1].boxes, call.arg[2])

\* C35 (SpecToggle). Checkbox example: after any sequence of toggles, repeats
\* that ask for the state a box already has included, the count of
\* `checkboxes` is the number of checked bits of all the documents; a toggle
\* that does not change its bit leaves every document that was there and the
\* counter as they were, and a document it creates has no box checked.
CheckboxCount ==
  /\ count(store, "checkboxes") = Num(checkedIn(app.checkboxes))
  /\ last.op = "toggle" /\ ~last.threw
       /\ boxIn(app.checkboxesBefore, last) = boxIn(app.checkboxes, last)
     => /\ store = prev
        /\ app.checkboxesBefore \subseteq app.checkboxes
        /\ checkedIn(app.checkboxes) = checkedIn(app.checkboxesBefore)

\* A box that is checked is asked to be checked again, after a toggle that
\* changed no bit created a second document.
CheckboxCountWitness ==
  /\ last.op = "toggle" /\ ~last.threw /\ last.arg[3]
  /\ boxIn(app.checkboxesBefore, last) /\ boxIn(app.checkboxes, last)
  /\ Cardinality(app.checkboxes) = 2
  /\ count(store, "checkboxes") = Num(1)

\* The number of times a user was counted, by either path.
timesCounted(id) ==
  Cardinality({i \in DOMAIN app.live : app.live[i] = id})
    + Cardinality({i \in DOMAIN app.paged : app.paged[i] = id})

\* C36 (SpecBackfill). Backfill protocol, no double counting: with
\* insertUserDuringBackfill interleaved with the pages of backfillUsersBatch
\* in any order, every user is added to the `users` counter at most once, by
\* the insert or by a page and never by both, and the counter has nothing
\* that was not added that way.
NoDoubleCounting ==
  /\ \A doc \in app.users : timesCounted(doc._id) <= 1
  /\ count(store, "users") = Num(Len(app.live) + Len(app.paged))

\* The backfill has ended after two pages or more; of the users inserted
\* while it ran one was counted by the insert, behind the cursor, and one by a
\* page.
NoDoubleCountingWitness ==
  /\ app.backfill.pc = "done" /\ app.late = {}
  /\ Len(app.paged) > numItems
  /\ \E i \in DOMAIN app.live, j \in DOMAIN app.paged :
       /\ app.live[i] % 2 = 1 /\ app.paged[j] % 2 = 1

\* C37 (SpecBackfill). Backfill protocol, completeness: once backfillUsers has
\* returned, the backfillCursor document is marked done and the `users`
\* counter equals the number of user documents, the users inserted afterwards
\* by insertUserDuringBackfill being counted exactly once each, whatever the
\* size of the table, the empty one and one whose last page is empty included.
BackfillComplete ==
  app.backfill.pc = "done"
    => /\ app.backfillCursor[1].isDone
       /\ count(store, "users") = Num(Cardinality(app.users))
       /\ \A id \in app.late : timesCounted(id) = 1

====
